---- MODULE Spec2Model ----
(***************************************************************************)
(* A model of the DJ console of src/App.tsx: the two decks, the Auto-DJ    *)
(* track selection (getNextTrack) and the Auto-DJ transition engine        *)
(* (startTransition / finishTransition / abortAutoDj / toggleAutoDj and    *)
(* the trigger effect), under React's scheduling: a handler or callback    *)
(* runs to completion on the state of the render it was created in, an     *)
(* async function is split at its awaits, and the passive effect runs      *)
(* after every commit before the next event is handled.                    *)
(*                                                                         *)
(* Units: times in milliseconds, volumes and crossfader positions in       *)
(* thousandths, loudness in hundredths, playback rates as reduced          *)
(* fractions <<numerator, denominator>>.                                   *)
(***************************************************************************)
EXTENDS Integers, Sequences, FiniteSets, TLC

\* ------------------------------------------------------------------ bounds
MaxLib == 2          \* files the user adds to the library
MaxTrans == 2        \* calls of startTransition in one session
MaxEnable == 1       \* times Auto-DJ is switched on in one session
MaxUserOps == 1      \* user transport / pitch gestures in one session
ReentryLib == 1      \* the same four of the session that switches Auto-DJ off and on again
ReentryTrans == 3
ReentryEnable == 2
ReentryUserOps == 0
MaxOrphans == 2      \* sources left playing without a reference that are counted
TickBurst == 120     \* interval callbacks that fire back to back in one step
MaxHist == 3         \* entries of the Auto-DJ history
PickLib == 3         \* library length of the selection specification
PickHist == 2        \* history length of the selection specification
PickLoads == 2       \* files the user loads onto a deck in the selection specification
PickQueue == 1       \* tracks queued at a time in the selection specification
RepickLib == 3       \* files added to the library in the repick specification
RepickQueue == 2     \* tracks queued at a time in the repick specification
MixLoads == 2                \* loads of a track in the mixer specification
LoopLoads == 2               \* loads of a track in the loop specification
MaxTaps == 6                 \* gestures on the metronome in the tap specification
MaxLearns == 3               \* presses of a Learn button in the MIDI specification
RepickEnable == 1    \* calls of toggleAutoDj in the repick specification

\* --------------------------------------------------------- small helpers
Min(a, b) == IF a < b THEN a ELSE b
Max(a, b) == IF a > b THEN a ELSE b
Abs(x) == IF x < 0 THEN -x ELSE x
CeilDiv(a, b) == (a + b - 1) \div b

RECURSIVE Gcd(_, _)
Gcd(a, b) == IF b = 0 THEN a ELSE Gcd(b, a % b)

\* a / b as a playback rate
Rate(a, b) == <<a \div Gcd(a, b), b \div Gcd(a, b)>>
RateOne == Rate(1, 1)

Range(s) == {s[i] : i \in DOMAIN s}
Contains(s, x) == \E i \in DOMAIN s : s[i] = x
Tail0(s) == IF s = <<>> THEN <<>> ELSE Tail(s)     \* q.slice(1)

DECKS == {"A", "B"}
OtherDeck(d) == IF d = "A" THEN "B" ELSE "A"

\* ------------------------------------------------------------ track data
CAMELOT_KEYS ==
    << <<"1","A">>, <<"1","B">>, <<"2","A">>, <<"2","B">>, <<"3","A">>, <<"3","B">>,
       <<"4","A">>, <<"4","B">>, <<"5","A">>, <<"5","B">>, <<"6","A">>, <<"6","B">>,
       <<"7","A">>, <<"7","B">>, <<"8","A">>, <<"8","B">>, <<"9","A">>, <<"9","B">>,
       <<"1","0","A">>, <<"1","0","B">>, <<"1","1","A">>, <<"1","1","B">>,
       <<"1","2","A">>, <<"1","2","B">> >>

MOCK_GENRES == <<"House", "Techno", "Trance", "Drum & Bass", "Pop", "Hip Hop", "Rock", "Ambient">>

\* The audio files of the model.  name: the file name as whitespace-separated
\* tokens; hash: the 32-bit string hash of the name computed by
\* getMockProperties; loudness, detected, duration: what decoding the file
\* yields (calculateLoudness in hundredths, detectKey as an index into
\* CAMELOT_KEYS, AudioBuffer.duration in ms).
FILES ==
    << [name |-> <<"dj", "-", "one">>,  hash |-> 14, loudness |-> 10, detected |-> 14, duration |-> 30000],
       [name |-> <<"DJ", "-", "two">>,  hash |-> 38, loudness |-> 16, detected |-> 16, duration |-> 30000],
       [name |-> <<"mc", "-", "three">>, hash |-> 16, loudness |-> 4,  detected |-> 3,  duration |-> 30000],
       [name |-> <<"four">>,            hash |-> 7,  loudness |-> 6,  detected |-> 15, duration |-> 30000] >>

FileOf(name) == CHOOSE i \in DOMAIN FILES : FILES[i].name = name

getMockProperties(fileName) ==
    LET hash == FILES[FileOf(fileName)].hash
    IN  [key |-> CAMELOT_KEYS[(hash % Len(CAMELOT_KEYS)) + 1],
         genre |-> MOCK_GENRES[(hash % Len(MOCK_GENRES)) + 1],
         bpm |-> 118 + (hash % 14)]

\* loudness in hundredths: Math.ceil(loudness * 50) = ceil(l / 2)
calculateEnergy(loudness, genre) ==
    LET base == CeilDiv(loudness, 2)
        energy == CASE genre \in {"Techno", "Drum & Bass", "Trance"} -> base + 2
                    [] genre \in {"House", "Pop", "Rock"} -> base + 1
                    [] genre = "Ambient" -> base - 2
                    [] OTHER -> base
    IN  Max(1, Min(10, energy))

Lower(tok) == CASE tok = "DJ" -> "dj" [] tok = "MC" -> "mc" [] OTHER -> tok
ToLowerCase(toks) == [i \in DOMAIN toks |-> Lower(toks[i])]

\* name.match(/^(.*?)\s+-\s+.+$/): the tokens before the first "-" that has a
\* token after it; <<>> stands for null and for the empty (falsy) artist.
getArtistFromName(name) ==
    LET seps == {i \in 2..(Len(name) - 1) : name[i] = "-"}
    IN  IF seps = {} THEN <<>>
        ELSE SubSeq(name, 1, (CHOOSE i \in seps : \A j \in seps : i <= j) - 1)

\* null / undefined values of a Song: id 0, empty key, bpm 0, energy 0
NoSong == [id |-> 0, name |-> <<>>, key |-> <<>>, genre |-> "", bpm |-> 0, energy |-> 0]

\* the record addSongsToLibrary makes of a file
LibrarySong(id, name) ==
    LET m == getMockProperties(name)
    IN  [id |-> id, name |-> name, key |-> m.key, genre |-> m.genre, bpm |-> m.bpm, energy |-> 0]

\* the record loadSong makes of a decoded file (songWithDetails)
DecodedSong(id, name) ==
    LET m == getMockProperties(name)
        f == FILES[FileOf(name)]
    IN  [id |-> id, name |-> name, key |-> CAMELOT_KEYS[f.detected + 1], genre |-> m.genre,
         bpm |-> m.bpm, energy |-> calculateEnergy(f.loudness, m.genre)]

\* ------------------------------------------------------- Camelot wheel
Digit(c) == CASE c = "0" -> 0 [] c = "1" -> 1 [] c = "2" -> 2 [] c = "3" -> 3 [] c = "4" -> 4
              [] c = "5" -> 5 [] c = "6" -> 6 [] c = "7" -> 7 [] c = "8" -> 8 [] c = "9" -> 9

RECURSIVE ParseInt(_)
ParseInt(cs) == IF cs = <<>> THEN 0 ELSE 10 * ParseInt(SubSeq(cs, 1, Len(cs) - 1)) + Digit(cs[Len(cs)])

DigitChar(n) == <<"0", "1", "2", "3", "4", "5", "6", "7", "8", "9">>[n + 1]
NumStr(n) == IF n < 10 THEN <<DigitChar(n)>> ELSE <<DigitChar(n \div 10), DigitChar(n % 10)>>

\* getCompatibleKeys without the wrap of the wheel at 12 and 1
getCompatibleKeysNoWrap(key) ==
    IF key = <<>> THEN <<>>
    ELSE LET num == ParseInt(SubSeq(key, 1, Len(key) - 1))
             letter == key[Len(key)]
         IN  << NumStr(num) \o <<IF letter = "A" THEN "B" ELSE "A">>,
                NumStr(num + 1) \o <<letter>>,
                NumStr(Max(num - 1, 0)) \o <<letter>> >>

getCompatibleKeys(key) ==
    IF key = <<>> THEN <<>>
    ELSE LET num == ParseInt(SubSeq(key, 1, Len(key) - 1))
             letter == key[Len(key)]
             nextNum == IF num = 12 THEN 1 ELSE num + 1
             prevNum == IF num = 1 THEN 12 ELSE num - 1
         IN  << NumStr(num) \o <<IF letter = "A" THEN "B" ELSE "A">>,
                NumStr(nextNum) \o <<letter>>,
                NumStr(prevNum) \o <<letter>> >>

\* ------------------------------------------------------------------ state
VARIABLES
    deck,                  \* deckA / deckB: the DeckState of each deck
    audio,                 \* deckAAudioRef / deckBAudioRef: buffer, source, transition filters
    audioContext,          \* audioContextRef.current is set
    crossfader,
    library, queueA, queueB,
    isAutoDjEnabled, autoDjActiveDeck, nextAutoDjTrack, autoDjHistory,
    isTransitioning, autoDjSettings,
    transitionIntervalRef, transitionTimeoutRef, activeSongIdRef,
    transitions,           \* the calls of startTransition: their closures and position
    liveIntervals,         \* intervals set and not cleared (by the call that set them)
    liveTimeouts,          \* timeouts set, not cleared and not yet fired
    enables,               \* the calls of toggleAutoDj that switched Auto-DJ on
    nextId,                \* the next value of Date.now() + Math.random()
    effectPending,         \* a commit happened and the Auto-DJ effect has not run yet
    userOps,               \* user gestures made so far
    session,               \* how much the user does in this behaviour
    lastOp,                \* the handler that ran last, with what it was called on
    pickedFor,             \* the id of the active deck's track for which nextAutoDjTrack was computed
    midiMapping,           \* control -> message id (NoMessage: the control has no entry)
    reverseMidiMapping,    \* message id -> control (NoControl: no entry)
    isMidiLearning,        \* the control being learned, or NoControl
    midiHandler,           \* what the handleMidiMessage attached to the device closes over
    midiDirty,             \* state was set and the next render has not been committed yet
    mappingEffectDue,      \* midiMapping was set since the effect on [midiMapping] last ran
    tapTempoTimestamps,    \* tapTempoTimestamps.current, ms
    metronomeBpm,
    faderGain,             \* deckXAudioRef.current.gainNode: its gain in 1e-9, -1 if null
    crossfaderCurve,
    mixEffectDue,          \* the crossfader effect is due: one of its dependencies was set
    loads,                 \* per deck, the calls of loadSong in the order they were made
    beatKit,               \* the beats state, the IndexedDB store and what the last load returned
    audioGraph,            \* what initAudioContext has built: contexts, graph builds, named points
    fx,                    \* activeEffects, the connections of the FX chain, the effect being due
    scratch,               \* per deck: scratch mode, wasPlayingBeforeScratch, the noise gain
    metro,                 \* the metronome scheduler: settings, refs, timers, displayed beat
    mic                    \* micStreamRef, micSourceNodeRef, isMicEnabled, requests in flight

vars == <<deck, audio, audioContext, crossfader, library, queueA, queueB,
          isAutoDjEnabled, autoDjActiveDeck, nextAutoDjTrack, pickedFor, autoDjHistory,
          isTransitioning, autoDjSettings,
          transitionIntervalRef, transitionTimeoutRef, activeSongIdRef,
          transitions, liveIntervals, liveTimeouts, enables, nextId,
          effectPending, userOps, session, lastOp,
          midiMapping, reverseMidiMapping, isMidiLearning, midiHandler, midiDirty,
          mappingEffectDue, tapTempoTimestamps, metronomeBpm, faderGain, crossfaderCurve,
          mixEffectDue, loads, beatKit, audioGraph, fx, scratch, metro, mic>>

\* the MIDI panel, the metronome and the mixer's fader nodes
\* the loader, the beat kit, the audio graph, the FX chain and the platters
rack == <<loads, beatKit, audioGraph, fx, scratch>>
\* the metronome scheduler and the microphone
booth == <<metro, mic>>

desk == <<midiMapping, reverseMidiMapping, isMidiLearning, midiHandler, midiDirty,
          mappingEffectDue, tapTempoTimestamps, metronomeBpm, faderGain, crossfaderCurve,
          mixEffectDue, rack, booth>>

\* MappableControl: the controls the specifications learn and dispatch
CONTROLS == {"deckA_volume", "deckB_volume", "crossfader"}
NoControl == ""

\* event.data of the MIDI messages the device sends: [command, data1, data2]
MidiEvents == {<<command, 7, data2>> : command \in {144, 176, 224}, data2 \in {0, 127}}

\* MidiMessageId `${type}_${channel}_${number}`, kept as its three parts; NoMessage is null
NoMessage == [type |-> "", channel |-> 0, number |-> 0]
\* handleMidiMessage: the message id of an event (status = command & 0xf0,
\* channel = (command & 0x0f) + 1)
MessageId(event) ==
    LET command == event[1]
        channel == (command % 16) + 1
        status == command - (command % 16)
    IN  IF status = 144 \/ status = 128
        THEN [type |-> IF status = 144 /\ event[3] > 0 THEN "note_on" ELSE "note_off",
              channel |-> channel, number |-> event[2]]
        ELSE IF status = 176 THEN [type |-> "cc", channel |-> channel, number |-> event[2]]
        ELSE NoMessage
MessageIds == {MessageId(event) : event \in MidiEvents} \ {NoMessage}

\* the beat pads: three categories of PadCount slots; NoBeat is null.  beatKit holds
\* the beats state, the items of the IndexedDB store, what the last loadBeatsFromDB
\* returned and whether it could read the store, and the kit the last save was given
BEAT_CATEGORIES == <<"drum", "tuning", "instrumental">>
PadCount == 12
NoBeat == [id |-> 0]
EmptyKit == [c \in Range(BEAT_CATEGORIES) |-> [i \in 1..PadCount |-> NoBeat]]

\* audioContextRef.current is null: no context constructed, no graph built, no named
\* connection point set, no call of initAudioContext made
NoGraph == [contexts |-> 0, builds |-> 0, state |-> "none", points |-> {}, calls |-> 0]

\* a platter nobody touches: scratch mode off, wasPlayingBeforeScratch false, noise muted
\* noise is the target of scratchNoiseGain in thousandths, resume the forceStartTime
\* of a pending resume timeout (-1: none); gesture, began and position describe the
\* gesture in progress: whether the deck played when it began, and where it ended
NoScratch == [scratchModeEnabled |-> FALSE, wasPlayingBeforeScratch |-> FALSE, noise |-> 0,
              resume |-> -1, gesture |-> "none", began |-> FALSE, position |-> -1]

\* the dependencies of the metronome effect as the mounting render has them
MountDeps == [isMetronomeEnabled |-> FALSE, metronomeBpm |-> 120, beats |-> 4,
              metronomeSound |-> "classic"]

\* the metronome after mounting: disabled, 4/4, the classic sound, the effect has run
\* once (ran: the dependencies it ran with), nextNoteTime and the clock in ms,
\* timer the time the pending scheduler timeout is due (-1: none pending), timerId
\* whether metronomeTimerId.current is set, visual the deferred setMetronomeBeat
\* timeouts in the order they were set, clicks and shown the main beats scheduled and
\* the beats displayed since the metronome was last enabled
NoMetro == [isMetronomeEnabled |-> FALSE, beats |-> 4, metronomeSound |-> "classic",
            ran |-> MountDeps, clock |-> 0, nextNoteTime |-> 0, currentBeatInMeasure |-> 0,
            timer |-> -1, timerId |-> FALSE, visual |-> <<>>, metronomeBeat |-> 0,
            clicks |-> <<>>, shown |-> <<>>, gestures |-> 0]

\* no microphone: micStreamRef.current and micSourceNodeRef.current are null (0),
\* no getUserMedia request in flight, no stream granted
NoMic == [stream |-> 0, source |-> 0, isMicEnabled |-> FALSE, pending |-> {}, held |-> {},
          sources |-> {}, requests |-> 0, latest |-> "none"]

\* useState of the MIDI panel, the metronome and the crossfader curve; no fader node yet.
\* midiMapping is kept as the entries of the object, in insertion order.
InitDesk ==
    /\ midiMapping = <<>>
    /\ reverseMidiMapping = [m \in MessageIds |-> NoControl]
    /\ isMidiLearning = NoControl
    /\ midiHandler = [isMidiLearning |-> NoControl,
                      reverseMidiMapping |-> [m \in MessageIds |-> NoControl]]
    /\ midiDirty = FALSE
    /\ mappingEffectDue = FALSE
    /\ tapTempoTimestamps = <<>>
    /\ metronomeBpm = 120
    /\ faderGain = [d \in DECKS |-> -1]
    /\ crossfaderCurve = "linear"
    /\ mixEffectDue = FALSE
    /\ loads = [d \in DECKS |-> <<>>]
    /\ beatKit = [beats |-> EmptyKit, store |-> {}, loaded |-> EmptyKit, saved |-> EmptyKit,
                  readable |-> TRUE]
    /\ audioGraph = NoGraph
    /\ fx = [activeEffects |-> {}, edges |-> {}, due |-> FALSE]
    /\ scratch = [d \in DECKS |-> NoScratch]
    /\ metro = NoMetro
    /\ mic = NoMic

NoLoop == [start |-> -1, end |-> -1, active |-> FALSE]

\* useState<DeckState>({...}) of deckA and deckB
\* cuePoints holds NoCue in an empty slot; viewStartRatio is in thousandths
NoCue == -1
InitDeck ==
    [song |-> NoSong, isPlaying |-> FALSE, volume |-> 750, playbackRate |-> RateOne,
     currentTime |-> 0, duration |-> 0, bpm |-> 0, loop |-> NoLoop, perceivedLoudness |-> 0,
     gain |-> 50, cuePoints |-> <<>>, zoom |-> 1, viewStartRatio |-> 0, keyLock |-> FALSE]

\* createTransitionNodeChain: eqFadeFilter.gain (mdB), highPassFilter and lowPassFilter frequency (Hz)
NeutralFilters == [eq |-> 0, hp |-> 10, lp |-> 22050]

\* useRef<any>({ source: null, ... }); the buffer is absent until a load.
\* source: "none" (null), "live" (started, not stopped) or "stopped".
InitAudio == [buffer |-> <<>>, source |-> "none", orphans |-> 0, filters |-> NeutralFilters]

\* useState<AutoDjSettings>({...})
DefaultSettings ==
    [transitionType |-> "Smart", transitionDuration |-> 8, transitionTrigger |-> 12,
     playlistSource |-> "library", shuffle |-> TRUE, harmonicMix |-> TRUE, genreMatch |-> FALSE,
     bpmMatch |-> [enabled |-> TRUE, range |-> 5], avoidRepeatingArtist |-> TRUE,
     autoGain |-> TRUE, beatMatch |-> TRUE, energyFlow |-> "Any"]

\* --------------------------------------------------------- getNextTrack
\* getNextTrack's pool without its last tier
TierPoolNoFallback(lib, hist, currentSongId, avoidTrackId) ==
    SelectSeq(lib, LAMBDA s : s.id # currentSongId /\ s.id # avoidTrackId)

\* The tiered selection pool of getNextTrack.
TierPool(lib, hist, currentSongId, avoidTrackId) ==
    LET historyIds == {hist[i].id : i \in DOMAIN hist}
        tier1 == SelectSeq(lib, LAMBDA s : s.id \notin historyIds /\ s.id # currentSongId
                                           /\ s.id # avoidTrackId)
        recentHistoryCount == CeilDiv(Len(hist), 2)
        recentHistoryIds == {hist[i].id : i \in 1..recentHistoryCount}
                              \cup (IF currentSongId # 0 THEN {currentSongId} ELSE {})
                              \cup (IF avoidTrackId # 0 THEN {avoidTrackId} ELSE {})
        tier2 == IF tier1 = <<>> /\ Len(lib) > 1
                 THEN SelectSeq(lib, LAMBDA s : s.id \notin recentHistoryIds) ELSE tier1
        tier3 == IF tier2 = <<>> /\ Len(lib) > 1
                 THEN SelectSeq(lib, LAMBDA s : s.id # currentSongId /\ s.id # avoidTrackId)
                 ELSE tier2
        minusAvoid == SelectSeq(lib, LAMBDA s : s.id # avoidTrackId)
    IN  IF tier3 # <<>> THEN tier3
        ELSE IF minusAvoid # <<>> THEN minusAvoid ELSE lib

\* if (matches.length > 0) filteredTracks = matches
Narrow(pool, matches) == IF matches # <<>> THEN matches ELSE pool

EnergyPass(s, cur, st) ==
    \/ s.energy = 0
    \/ CASE st.energyFlow = "Maintain" -> Abs(s.energy - cur.energy) <= 2
         [] st.energyFlow = "Increase" -> s.energy > cur.energy
         [] st.energyFlow = "Decrease" -> s.energy < cur.energy
         [] OTHER -> TRUE
EnergyOn(cur, st) == st.energyFlow # "Any" /\ cur.energy # 0

ArtistPass(s, cur, st) ==
    LET nextArtist == getArtistFromName(s.name)
    IN  nextArtist = <<>> \/ ToLowerCase(nextArtist) # ToLowerCase(getArtistFromName(cur.name))
ArtistOn(cur, st) == st.avoidRepeatingArtist /\ cur.name # <<>> /\ getArtistFromName(cur.name) # <<>>

BpmPass(s, cur, st) ==
    s.bpm # 0 /\ s.bpm >= cur.bpm - st.bpmMatch.range /\ s.bpm <= cur.bpm + st.bpmMatch.range
BpmOn(cur, st) == st.bpmMatch.enabled /\ cur.bpm # 0

GenrePass(s, cur, st) == s.genre = cur.genre
GenreOn(cur, st) == st.genreMatch /\ cur.genre # ""

HarmonicPass(s, cur, st) == s.key # <<>> /\ Contains(getCompatibleKeys(cur.key), s.key)
HarmonicOn(cur, st) == st.harmonicMix /\ cur.key # <<>>

AfterEnergy(pool, cur, st) ==
    IF EnergyOn(cur, st) THEN Narrow(pool, SelectSeq(pool, LAMBDA s : EnergyPass(s, cur, st))) ELSE pool
AfterArtist(pool, cur, st) ==
    IF ArtistOn(cur, st) THEN Narrow(pool, SelectSeq(pool, LAMBDA s : ArtistPass(s, cur, st))) ELSE pool
AfterBpm(pool, cur, st) ==
    IF BpmOn(cur, st) THEN Narrow(pool, SelectSeq(pool, LAMBDA s : BpmPass(s, cur, st))) ELSE pool
AfterGenre(pool, cur, st) ==
    IF GenreOn(cur, st) THEN Narrow(pool, SelectSeq(pool, LAMBDA s : GenrePass(s, cur, st))) ELSE pool
AfterHarmonic(pool, cur, st) ==
    IF HarmonicOn(cur, st) THEN Narrow(pool, SelectSeq(pool, LAMBDA s : HarmonicPass(s, cur, st))) ELSE pool

\* the pool before each of the five filters, and the final selection pool
PoolAt(k, pool, cur, st) ==
    LET p1 == AfterEnergy(pool, cur, st)
        p2 == AfterArtist(p1, cur, st)
        p3 == AfterBpm(p2, cur, st)
        p4 == AfterGenre(p3, cur, st)
        p5 == AfterHarmonic(p4, cur, st)
    IN  CASE k = 0 -> pool [] k = 1 -> p1 [] k = 2 -> p2 [] k = 3 -> p3 [] k = 4 -> p4 [] OTHER -> p5

\* the selection pool with no criterion applied
CriteriaPoolUnfiltered(pool, cur, st) == pool

CriteriaPool(pool, cur, st) ==
    LET filteredTracks == PoolAt(5, pool, cur, st)
    IN  IF filteredTracks # <<>> THEN filteredTracks ELSE pool

\* library.findIndex(s => s.id === id), 1-based; 0 when there is none
FindIndex(lib, id) ==
    IF \E i \in DOMAIN lib : lib[i].id = id
    THEN CHOOSE i \in DOMAIN lib : lib[i].id = id /\ \A j \in 1..(i - 1) : lib[j].id # id
    ELSE 0

\* pool.find(p => p.id === id)
FindById(pool, id) ==
    pool[CHOOSE i \in DOMAIN pool : pool[i].id = id /\ \A j \in 1..(i - 1) : pool[j].id # id]

\* the else branch of "Final Selection": the walk of the library after the current song
SequentialPick(lib, pool, currentSongId) ==
    LET currentSongIndex == FindIndex(lib, currentSongId)
        At(i) == lib[((currentSongIndex - 1 + i) % Len(lib)) + 1]
        hits == {i \in 1..Len(lib) : \E k \in DOMAIN pool : pool[k].id = At(i).id}
    IN  IF currentSongIndex > 0 /\ hits # {}
        THEN FindById(pool, At(CHOOSE i \in hits : \A j \in hits : i <= j).id)
        ELSE pool[1]

\* The songs getNextTrack(avoidTrackId) can return on the given state; NoSong is
\* null, 0 is an absent avoidTrackId, and Math.random makes it a set.
NextTrackOn(lib, hist, cur, qNext, st, avoidTrackId) ==
    IF st.playlistSource = "queues" /\ qNext # <<>> THEN {qNext[1]}
    ELSE IF lib = <<>> THEN {NoSong}
    ELSE LET selectionPool == TierPool(lib, hist, cur.id, avoidTrackId)
             finalSelectionPool == CriteriaPool(selectionPool, cur, st)
         IN  IF selectionPool = <<>> THEN {NoSong}
             ELSE IF st.shuffle THEN Range(finalSelectionPool)
             ELSE {SequentialPick(lib, finalSelectionPool, cur.id)}

getNextTrack(avoidTrackId) ==
    NextTrackOn(library, autoDjHistory, deck[autoDjActiveDeck].song,
                IF autoDjActiveDeck = "A" THEN queueB ELSE queueA, autoDjSettings, avoidTrackId)

\* ------------------------------------------------------------- deck engine
\* What a closure created in a render keeps of deckA / deckB: the fields of the
\* DeckState that togglePlay, startTransition and finishTransition read from it.
SnapDeck(dk) ==
    [song |-> dk.song, isPlaying |-> dk.isPlaying, playbackRate |-> dk.playbackRate,
     volume |-> dk.volume, perceivedLoudness |-> dk.perceivedLoudness, duration |-> dk.duration,
     zoom |-> dk.zoom, viewStartRatio |-> dk.viewStartRatio]
Snapshot == [d \in DECKS |-> SnapDeck(deck[d])]

\* togglePlay(deck, options) run on the render snapshot snapD of that deck:
\* the new DeckState.  noRate is an absent options.playbackRate.
NoRate == <<0, 0>>
TogglePlayDeck(dk, snapD, au, rateOpt) ==
    IF snapD.isPlaying THEN [dk EXCEPT !.isPlaying = FALSE]
    ELSE IF au.buffer # <<>>
         THEN [dk EXCEPT !.isPlaying = TRUE,
                         !.playbackRate = IF rateOpt = NoRate THEN snapD.playbackRate ELSE rateOpt]
         ELSE dk

\* togglePlay: what it does to the deck's audio reference
TogglePlayAudio(au, snapD) ==
    IF snapD.isPlaying
    THEN [au EXCEPT !.source = IF au.source = "none" THEN "none" ELSE "stopped"]
    ELSE IF au.buffer # <<>>
         THEN [au EXCEPT !.source = "live",
                         !.orphans = IF au.source = "live" THEN Min(au.orphans + 1, MaxOrphans)
                                     ELSE au.orphans]
         ELSE au

\* handlePitchChange: setDeck(d => ({ ...d, playbackRate: newRate }))
PitchChanged(dk, newRate) == [dk EXCEPT !.playbackRate = newRate]

\* the waveform view centred on a position: ratio - visibleRatio / 2 clamped to
\* [0, 1 - visibleRatio], in thousandths
CentredView(zoom, time, duration) ==
    Max(0, Min((time * 1000) \div duration - (1000 \div zoom) \div 2, 1000 - 1000 \div zoom))

\* a seek that takes the requested time as it is
SeekUnclamped(dk, snapD, newTime) ==
    IF snapD.song = NoSong \/ snapD.duration = 0 THEN dk
    ELSE [dk EXCEPT !.currentTime = newTime]

\* seekDeck run on the render snapshot snapD: the new position of the deck
SeekDeckState(dk, snapD, newTime) ==
    IF snapD.song = NoSong \/ snapD.duration = 0 THEN dk
    ELSE LET time == Max(0, Min(newTime, snapD.duration))
         IN  [dk EXCEPT !.currentTime = time,
                        !.viewStartRatio = IF snapD.zoom > 1
                                           THEN CentredView(snapD.zoom, time, snapD.duration)
                                           ELSE snapD.viewStartRatio]

\* seekDeck run on the render snapshot snapD: whether it starts a new buffer source
SeekRestarts(snapD, au) ==
    snapD.song # NoSong /\ snapD.duration # 0 /\ snapD.isPlaying /\ au.buffer # <<>>

\* loadSong, once the file is decoded: { ...d, ...newDeckState }
NewDeckState(dk, id, name) ==
    LET f == FILES[FileOf(name)]
    IN  [dk EXCEPT !.song = DecodedSong(id, name), !.duration = f.duration, !.isPlaying = FALSE,
                   !.currentTime = 0, !.bpm = getMockProperties(name).bpm,
                   !.playbackRate = RateOne, !.loop = NoLoop, !.perceivedLoudness = f.loudness,
                   !.cuePoints = <<>>, !.zoom = 1, !.viewStartRatio = 0, !.gain = 50,
                   !.volume = 750, !.keyLock = FALSE]

\* setDeckA(d => ({ ...d, ...newDeckState, volume: d.volume, keyLock: d.keyLock,
\* scratchModeEnabled: d.scratchModeEnabled })); the scratch flags are in scratch
LoadedDeck(dk, id, name) ==
    [NewDeckState(dk, id, name) EXCEPT !.volume = dk.volume, !.keyLock = dk.keyLock]

LoadedAudio(au, name) == [au EXCEPT !.source = "none", !.buffer = name]

LoadedLibrary(lib, id, name) ==
    LET existingIndex == IF \E i \in DOMAIN lib : lib[i].name = name
                         THEN CHOOSE i \in DOMAIN lib :
                                  lib[i].name = name /\ \A j \in 1..(i - 1) : lib[j].name # name
                         ELSE 0
        song == DecodedSong(id, name)
    IN  IF existingIndex > 0
        THEN [lib EXCEPT ![existingIndex] =
                  [@ EXCEPT !.key = song.key, !.genre = song.genre, !.bpm = song.bpm,
                            !.energy = song.energy]]
        ELSE Append(lib, song)

\* processDeck: with the waveform zoomed, the view is centred on the position when it
\* comes within a fifth of the visible part of either edge
FollowedView(dk, newTime) ==
    LET visibleRatio == 1000 \div dk.zoom
        progressRatio == (newTime * 1000) \div dk.duration
    IN  IF dk.zoom > 1 /\ dk.duration > 0
           /\ (\/ progressRatio > dk.viewStartRatio + visibleRatio - visibleRatio \div 5
               \/ progressRatio < dk.viewStartRatio + visibleRatio \div 5)
        THEN CentredView(dk.zoom, newTime, dk.duration)
        ELSE dk.viewStartRatio

\* one processDeck of updateLoop: the deck after a frame in which elapsed * playbackRate = adv.
\* Its seekDeck is the one of the first render (useCallback with no dependencies),
\* whose deck snapshot is the initial, empty DeckState.
ProcessDeck(dk, adv) ==
    IF ~dk.isPlaying THEN dk
    ELSE LET newTime == dk.currentTime + adv
         IN  IF dk.loop.active /\ dk.loop.start # -1 /\ dk.loop.end # -1 /\ newTime >= dk.loop.end
             THEN SeekDeckState(dk, SnapDeck(InitDeck),
                                dk.loop.start + ((newTime - dk.loop.end) % (dk.loop.end - dk.loop.start)))
             ELSE IF newTime >= dk.duration
                  THEN [dk EXCEPT !.isPlaying = FALSE, !.currentTime = dk.duration]
                  ELSE [dk EXCEPT !.currentTime = newTime,
                                  !.viewStartRatio = FollowedView(dk, newTime)]

\* the buffer source of a deck whose simulated position reached the end has played out
ProcessAudio(au, dk, adv) ==
    IF ProcessDeck(dk, adv).isPlaying # dk.isPlaying /\ au.source = "live"
    THEN [au EXCEPT !.source = "stopped"] ELSE au

\* -------------------------------------------------------- Auto-DJ engine
\* lastOp: the handler or timer callback that ran last and what it ran on: the call
\* of startTransition it belongs to, that call's outgoing deck, the track it retires,
\* the history it found, its beatMatch setting and whether it had been aborted; for a
\* call of getNextTrack, the avoidTrackId it was given and the track it returned
NoOp ==
    [op |-> "none", tr |-> 0, from |-> "A", retired |-> NoSong, hist |-> <<>>,
     beatMatch |-> FALSE, aborted |-> FALSE, avoid |-> 0, pick |-> NoSong,
     pickedFor |-> 0, current |-> 0, key |-> <<>>, candidate |-> <<>>, keys |-> <<>>,
     match |-> FALSE, control |-> NoControl, message |-> NoMessage, mapping |-> <<>>,
     now |-> 0, taps |-> <<>>, bpm |-> 0, t |-> [d \in DECKS |-> -1], restarted |-> {},
     gains |-> <<0, 0>>, caller |-> "", graph |-> NoGraph,
     decks |-> [d \in DECKS |-> InitDeck], scratchMode |-> FALSE]
FinishOp(i) ==
    [NoOp EXCEPT !.op = "finishTransition", !.tr = i, !.from = transitions[i].from,
                 !.retired = transitions[i].snap[transitions[i].from].song,
                 !.hist = autoDjHistory, !.beatMatch = transitions[i].st.beatMatch,
                 !.aborted = transitions[i].aborted]
StepOp(i) == [NoOp EXCEPT !.op = "progressStep", !.tr = i, !.aborted = transitions[i].aborted]
AbortOp == [NoOp EXCEPT !.op = "abortAutoDj"]
\* startTransition(nextTrack) has been entered: the track it was given, the id of
\* the track that pick was computed for, and the id of the active deck's track
StartOp(nextTrack, for, cur) ==
    [NoOp EXCEPT !.op = "startTransition", !.pick = nextTrack, !.pickedFor = for, !.current = cur]

\* "Smart Transition Logic": the style and duration (s) a transition runs with
EffectiveStyle(fromSong, nextTrack, st) ==
    IF st.transitionType # "Smart"
    THEN [type |-> st.transitionType, duration |-> st.transitionDuration]
    ELSE IF fromSong # NoSong
         THEN LET e(x) == IF x = 0 THEN 5 ELSE x
                  energyDiff == Abs(e(fromSong.energy) - e(nextTrack.energy))
              IN  IF fromSong.genre = nextTrack.genre /\ energyDiff <= 2
                  THEN [type |-> "Filter Fade", duration |-> 12]
                  ELSE IF energyDiff > 4 THEN [type |-> "EQ Fade", duration |-> 8]
                  ELSE [type |-> "Crossfade", duration |-> 6]
         ELSE [type |-> "Crossfade", duration |-> st.transitionDuration]

\* the loop the "Loop Out" style locks on the outgoing deck: 4 beats from the playhead
LoopOutLoop(fromDeckState) ==
    [start |-> fromDeckState.currentTime,
     end |-> Min(fromDeckState.currentTime + (4 * 60000) \div fromDeckState.bpm, fromDeckState.duration),
     active |-> TRUE]

\* A call of startTransition that can act no more (its load is over and no timer
\* of it is left) keeps nothing of its closure.
SpentCall ==
    [from |-> "A", snap |-> [d \in DECKS |-> SnapDeck(InitDeck)], st |-> DefaultSettings,
     nextTrack |-> NoSong, type |-> "", duration |-> 0, pc |-> "done", step |-> 0,
     toStartVolume |-> 0, open |-> FALSE, aborted |-> FALSE]
Settle(trs, li, lt) ==
    [i \in DOMAIN trs |->
        IF trs[i].pc = "loading" \/ i \in li \/ i \in lt THEN trs[i]
        ELSE [SpentCall EXCEPT !.pc = IF trs[i].pc = "failed" THEN "failed" ELSE "done",
                               !.open = trs[i].pc = "failed" /\ trs[i].open,
                               !.aborted = trs[i].pc = "failed" /\ trs[i].aborted]]

\* startTransition(nextTrack) up to its await of loadSong
StartTransition(nextTrack) ==
    LET fromDeck == autoDjActiveDeck
        fromDeckState == deck[fromDeck]
        eff == EffectiveStyle(fromDeckState.song, nextTrack, autoDjSettings)
    IN  /\ Len(transitions) < session.trans
        /\ liveIntervals' = liveIntervals \ {transitionIntervalRef}
        /\ liveTimeouts' = liveTimeouts \ {transitionTimeoutRef}
        /\ nextAutoDjTrack' = NoSong
        /\ pickedFor' = 0
        /\ deck' = IF eff.type = "Loop Out" /\ fromDeckState.bpm # 0
                   THEN [deck EXCEPT ![fromDeck].loop = LoopOutLoop(fromDeckState)]
                   ELSE deck
        /\ audioContext' = TRUE
        /\ transitions' = Settle(Append(transitions,
               [from |-> fromDeck, snap |-> Snapshot, st |-> autoDjSettings, nextTrack |-> nextTrack,
                type |-> eff.type, duration |-> eff.duration, pc |-> "loading", step |-> 0,
                toStartVolume |-> 0, open |-> TRUE, aborted |-> FALSE]), liveIntervals', liveTimeouts')

\* the volume the incoming deck starts with (auto-gain), in thousandths
ToDeckStartVolume(t) ==
    LET fromLoudness == t.snap[t.from].perceivedLoudness
        toLoudness == FILES[FileOf(t.nextTrack.name)].loudness
    IN  IF t.st.autoGain /\ fromLoudness # 0 /\ toLoudness > 0
        THEN Max(375, Min(1125, (750 * fromLoudness) \div toLoudness))
        ELSE 750

\* the playback rate the incoming deck starts with (beat-match)
TargetPlaybackRate(t) ==
    LET fromBpm == t.snap[t.from].song.bpm
    IN  IF t.st.beatMatch /\ fromBpm # 0 /\ t.nextTrack.bpm > 0
        THEN Rate(fromBpm, t.nextTrack.bpm) ELSE RateOne

\* the reset of the outgoing deck without its volume
FinishedDeckKeepsVolume(dk) ==
    [dk EXCEPT !.currentTime = 0, !.song = NoSong, !.isPlaying = FALSE, !.loop = NoLoop]

\* setFromDeckState(d => ({ ...d, currentTime: 0, song: null, ... })) of finishTransition
FinishedDeck(dk) ==
    [dk EXCEPT !.currentTime = 0, !.song = NoSong, !.isPlaying = FALSE, !.loop = NoLoop, !.volume = 750]

\* the crossfader position finishTransition snaps to
FinishedCrossfader(fromDeck) == IF fromDeck = "A" THEN 1000 ELSE -1000

\* finishTransition of call i, run after dk0 / au0 / lt0 were reached in the same callback
FinishTransition(i, dk0, au0, lt0) ==
    LET t == transitions[i]
        fromDeck == t.from
        toDeck == OtherDeck(fromDeck)
        snapFrom == t.snap[fromDeck]
        dkFrom == FinishedDeck(TogglePlayDeck(dk0[fromDeck], snapFrom, au0[fromDeck], NoRate))
        dkTo == IF t.st.beatMatch THEN PitchChanged(dk0[toDeck], RateOne) ELSE dk0[toDeck]
    IN  /\ snapFrom.song # NoSong => Len(autoDjHistory) < MaxHist
        /\ liveIntervals' = liveIntervals \ {transitionIntervalRef}
        /\ liveTimeouts' = lt0 \ {transitionTimeoutRef}
        /\ transitionIntervalRef' = 0
        /\ transitionTimeoutRef' = 0
        /\ deck' = [d \in DECKS |-> IF d = fromDeck THEN dkFrom ELSE dkTo]
        /\ audio' = [d \in DECKS |->
                       [(IF d = fromDeck THEN TogglePlayAudio(au0[d], snapFrom) ELSE au0[d])
                            EXCEPT !.filters = NeutralFilters]]
        /\ crossfader' = FinishedCrossfader(fromDeck)
        /\ autoDjActiveDeck' = toDeck
        /\ autoDjHistory' = IF snapFrom.song # NoSong THEN <<snapFrom.song>> \o autoDjHistory
                            ELSE autoDjHistory
        /\ queueA' = IF t.st.playlistSource = "queues" /\ toDeck = "A" THEN Tail0(queueA) ELSE queueA
        /\ queueB' = IF t.st.playlistSource = "queues" /\ toDeck = "B" THEN Tail0(queueB) ELSE queueB
        /\ isTransitioning' = FALSE

\* the continuation of startTransition once loadSong has resolved
TransLoadDone(i) ==
    LET t == transitions[i]
        fromDeck == t.from
        toDeck == OtherDeck(fromDeck)
        name == t.nextTrack.name
        au1 == LoadedAudio(audio[toDeck], name)
        toVol == ToDeckStartVolume(t)
        rate == TargetPlaybackRate(t)
        dk1 == PitchChanged([LoadedDeck(deck[toDeck], nextId, name) EXCEPT !.volume = toVol], rate)
        dk2 == TogglePlayDeck(dk1, t.snap[toDeck], au1, rate)
        au2 == TogglePlayAudio(au1, t.snap[toDeck])
        cut == t.type = "Cut"
    IN  /\ ~effectPending
        /\ UNCHANGED <<session, desk>>
        /\ i \in DOMAIN transitions /\ t.pc = "loading"
        /\ library' = LoadedLibrary(library, nextId, name)
        /\ nextId' = nextId + 1
        /\ deck' = [deck EXCEPT ![toDeck] = dk2]
        /\ audio' = [audio EXCEPT ![toDeck] = au2]
        /\ crossfader' = IF cut THEN FinishedCrossfader(fromDeck) ELSE crossfader
        /\ liveTimeouts' = IF cut THEN (liveTimeouts \ {transitionTimeoutRef}) \cup {i} ELSE liveTimeouts
        /\ transitionTimeoutRef' = IF cut THEN i ELSE transitionTimeoutRef
        /\ liveIntervals' = IF cut THEN liveIntervals ELSE liveIntervals \cup {i}
        /\ transitionIntervalRef' = IF cut THEN transitionIntervalRef ELSE i
        /\ transitions' = [transitions EXCEPT ![i].pc = IF cut THEN "timeout" ELSE "interval",
                                              ![i].toStartVolume = toVol]
        /\ effectPending' = TRUE
        /\ lastOp' = NoOp
        /\ UNCHANGED <<audioContext, queueA, queueB, isAutoDjEnabled, autoDjActiveDeck,
                       nextAutoDjTrack, pickedFor, autoDjHistory, isTransitioning, autoDjSettings,
                       activeSongIdRef, enables, userOps>>

\* loadSong rejects (reader.onerror or decodeAudioData throws): the await throws
TransLoadFail(i) ==
    /\ ~effectPending
    /\ UNCHANGED <<session, desk>>
    /\ i \in DOMAIN transitions /\ transitions[i].pc = "loading"
    /\ transitions' = Settle([transitions EXCEPT ![i].pc = "failed"], liveIntervals, liveTimeouts)
    /\ lastOp' = NoOp
    /\ UNCHANGED <<deck, audio, audioContext, crossfader, library, queueA, queueB, isAutoDjEnabled,
                   autoDjActiveDeck, nextAutoDjTrack, pickedFor, autoDjHistory, isTransitioning,
                   autoDjSettings, transitionIntervalRef, transitionTimeoutRef, activeSongIdRef,
                   liveIntervals, liveTimeouts, enables, nextId, effectPending, userOps>>

\* steps = durationMs / 50
Steps(t) == (t.duration * 1000) \div 50
\* Math.min(1, step / steps), in thousandths
Progress(step, steps) == IF step >= steps THEN 1000 ELSE (step * 1000) \div steps

\* the deck volumes after a progress step at progress p ("Fade In/Out" only)
StepDeck(t, dk, p) ==
    LET fromDeck == t.from
        toDeck == OtherDeck(fromDeck)
    IN  IF t.type = "Fade In/Out"
        THEN [dk EXCEPT ![fromDeck].volume = (t.snap[fromDeck].volume * (1000 - p)) \div 1000,
                        ![toDeck].volume = (t.toStartVolume * p) \div 1000]
        ELSE dk

\* the crossfader after a progress step at progress p
StepCrossfader(t, p) ==
    LET direction == IF t.from = "A" THEN 1 ELSE -1
    IN  IF t.type = "Fade In/Out" THEN 0 ELSE (-direction) * 1000 + p * 2 * direction

\* the transition filters after a progress step at progress p
StepAudio(t, au, p) ==
    LET fromDeck == t.from
        toDeck == OtherDeck(fromDeck)
    IN  CASE t.type = "EQ Fade" -> [au EXCEPT ![fromDeck].filters.eq = -30 * p]
          [] t.type = "Filter Fade" ->
                 [au EXCEPT ![fromDeck].filters.hp = 10 + (p * 18000) \div 1000,
                            ![toDeck].filters.lp = 350 + (p * (22050 - 350)) \div 1000]
          [] OTHER -> au

\* the interval callback of call i, TickBurst times in a row or up to the one
\* that calls finishTransition
IntervalTick(i) ==
    LET t == transitions[i]
        steps == Steps(t)
        step1 == IF t.step >= steps THEN t.step ELSE Min(t.step + TickBurst, steps)
        p == Progress(step1, steps)
    IN  /\ ~effectPending
        /\ UNCHANGED <<session, desk>>
        /\ i \in liveIntervals
        /\ audioContext
        /\ effectPending' = TRUE
        /\ IF step1 >= steps
           THEN /\ FinishTransition(i, StepDeck(t, deck, p), StepAudio(t, audio, p), liveTimeouts)
                /\ transitions' = Settle([transitions EXCEPT ![i].step = step1, ![i].open = FALSE],
                                          liveIntervals', liveTimeouts')
                /\ lastOp' = FinishOp(i)
                /\ UNCHANGED <<audioContext, library, isAutoDjEnabled, nextAutoDjTrack, pickedFor,
                               autoDjSettings, activeSongIdRef, enables, nextId, userOps>>
           ELSE /\ deck' = StepDeck(t, deck, p)
                /\ audio' = StepAudio(t, audio, p)
                /\ crossfader' = StepCrossfader(t, p)
                /\ transitions' = [transitions EXCEPT ![i].step = step1]
                /\ lastOp' = StepOp(i)
                /\ UNCHANGED <<audioContext, library, queueA, queueB, isAutoDjEnabled,
                               autoDjActiveDeck, nextAutoDjTrack, pickedFor, autoDjHistory, isTransitioning,
                               autoDjSettings, transitionIntervalRef, transitionTimeoutRef,
                               activeSongIdRef, liveIntervals, liveTimeouts, enables, nextId,
                               userOps>>

\* setTimeout(finishTransition, 1000) of the "Cut" style fires
SettleTimeout(i) ==
    /\ ~effectPending
    /\ UNCHANGED <<session, desk>>
    /\ i \in liveTimeouts
    /\ FinishTransition(i, deck, audio, liveTimeouts \ {i})
    /\ transitions' = Settle([transitions EXCEPT ![i].open = FALSE], liveIntervals', liveTimeouts')
    /\ effectPending' = TRUE
    /\ lastOp' = FinishOp(i)
    /\ UNCHANGED <<audioContext, library, isAutoDjEnabled, nextAutoDjTrack, pickedFor, autoDjSettings,
                   activeSongIdRef, enables, nextId, userOps>>

\* setDeckA / setDeckB and handlePitchChange of abortAutoDj
AbortedDeck(dk) ==
    [(IF dk.song # NoSong THEN PitchChanged(dk, RateOne) ELSE dk) EXCEPT !.volume = 750]

\* abortAutoDj
AbortAutoDj ==
    /\ liveIntervals' = liveIntervals \ {transitionIntervalRef}
    /\ liveTimeouts' = liveTimeouts \ {transitionTimeoutRef}
    /\ transitionIntervalRef' = 0
    /\ transitionTimeoutRef' = 0
    /\ isTransitioning' = FALSE
    /\ audio' = IF audioContext THEN [d \in DECKS |-> [audio[d] EXCEPT !.filters = NeutralFilters]]
                ELSE audio
    /\ deck' = [d \in DECKS |-> AbortedDeck(deck[d])]
    /\ crossfader' = 0
    /\ activeSongIdRef' = 0
    /\ nextAutoDjTrack' = NoSong
    /\ pickedFor' = 0

\* toggleAutoDj while Auto-DJ is on
DisableAutoDj ==
    /\ ~effectPending
    /\ UNCHANGED <<session, desk>>
    /\ isAutoDjEnabled
    /\ isAutoDjEnabled' = FALSE
    /\ AbortAutoDj
    /\ transitions' = Settle([i \in DOMAIN transitions |->
                                 [transitions[i] EXCEPT !.open = FALSE,
                                                        !.aborted = @ \/ transitions[i].open]],
                             liveIntervals', liveTimeouts')
    /\ effectPending' = TRUE
    /\ lastOp' = AbortOp
    /\ UNCHANGED <<audioContext, library, queueA, queueB, autoDjActiveDeck, autoDjHistory,
                   autoDjSettings, enables, nextId, userOps>>

\* a call of toggleAutoDj whose load is over keeps nothing of its closure
SpentEnable ==
    [track |-> NoSong, snap |-> [d \in DECKS |-> SnapDeck(InitDeck)], st |-> DefaultSettings,
     pc |-> "done"]

\* toggleAutoDj while Auto-DJ is off, up to its await of loadSong
EnableAutoDj ==
    /\ ~effectPending
    /\ UNCHANGED <<session, desk>>
    /\ ~isAutoDjEnabled
    /\ Len(enables) < session.enable
    /\ autoDjHistory' = <<>>
    /\ effectPending' = TRUE
    /\ lastOp' = NoOp
    /\ \E startingTrack \in getNextTrack(0) :
          IF startingTrack = NoSong
          THEN /\ isAutoDjEnabled' = FALSE
               /\ UNCHANGED <<deck, audio, audioContext, crossfader, enables>>
          ELSE /\ isAutoDjEnabled' = TRUE
               /\ crossfader' = IF autoDjSettings.transitionType = "Fade In/Out" THEN 0 ELSE -1000
               /\ deck' = [d \in DECKS |-> [deck[d] EXCEPT !.volume = 750]]
               /\ audioContext' = TRUE
               /\ enables' = Append(enables, [track |-> startingTrack, snap |-> Snapshot,
                                              st |-> autoDjSettings, pc |-> "loading"])
               /\ UNCHANGED audio
    /\ UNCHANGED <<library, queueA, queueB, autoDjActiveDeck, nextAutoDjTrack, pickedFor, isTransitioning,
                   autoDjSettings, transitionIntervalRef, transitionTimeoutRef, activeSongIdRef,
                   transitions, liveIntervals, liveTimeouts, nextId, userOps>>

\* the continuation of toggleAutoDj once loadSong has resolved
EnableLoadDone(j) ==
    LET e == enables[j]
        name == e.track.name
        au1 == LoadedAudio(audio["A"], name)
        dk1 == LoadedDeck(deck["A"], nextId, name)
    IN  /\ ~effectPending
        /\ UNCHANGED <<session, desk>>
        /\ j \in DOMAIN enables /\ e.pc = "loading"
        /\ library' = LoadedLibrary(library, nextId, name)
        /\ nextId' = nextId + 1
        /\ deck' = [deck EXCEPT !["A"] = TogglePlayDeck(dk1, e.snap["A"], au1, NoRate)]
        /\ audio' = [audio EXCEPT !["A"] = TogglePlayAudio(au1, e.snap["A"])]
        /\ autoDjActiveDeck' = "A"
        /\ queueA' = IF e.st.playlistSource = "queues" THEN Tail0(queueA) ELSE queueA
        /\ enables' = [enables EXCEPT ![j] = SpentEnable]
        /\ effectPending' = TRUE
        /\ lastOp' = [NoOp EXCEPT !.op = "toggleAutoDj", !.pick = e.track]
        /\ UNCHANGED <<audioContext, crossfader, queueB, isAutoDjEnabled, nextAutoDjTrack, pickedFor,
                       autoDjHistory, isTransitioning, autoDjSettings, transitionIntervalRef,
                       transitionTimeoutRef, activeSongIdRef, transitions, liveIntervals,
                       liveTimeouts, userOps>>

\* loadSong of toggleAutoDj rejects
EnableLoadFail(j) ==
    /\ ~effectPending
    /\ UNCHANGED <<session, desk>>
    /\ j \in DOMAIN enables /\ enables[j].pc = "loading"
    /\ enables' = [enables EXCEPT ![j] = SpentEnable]
    /\ lastOp' = NoOp
    /\ UNCHANGED <<deck, audio, audioContext, crossfader, library, queueA, queueB, isAutoDjEnabled,
                   autoDjActiveDeck, nextAutoDjTrack, pickedFor, autoDjHistory, isTransitioning,
                   autoDjSettings, transitionIntervalRef, transitionTimeoutRef, activeSongIdRef,
                   transitions, liveIntervals, liveTimeouts, nextId, effectPending, userOps>>

\* the condition under which the Auto-DJ effect starts a transition
TriggerGuard(activeDeckState, triggerPoint, intervalRef, transitioning) ==
    /\ activeDeckState.isPlaying
    /\ activeDeckState.duration > 0
    /\ (activeDeckState.duration - activeDeckState.currentTime) < triggerPoint * 1000
    /\ intervalRef = 0
    /\ ~transitioning

\* the Auto-DJ effect (useEffect with activeSongIdRef), run after a commit
AutoDjEffect ==
    /\ effectPending
    /\ UNCHANGED <<session, desk>>
    /\ effectPending' = FALSE
    /\ IF ~isAutoDjEnabled
       THEN /\ lastOp' = NoOp
            /\ UNCHANGED <<deck, audio, audioContext, crossfader, library, queueA, queueB,
                        isAutoDjEnabled, autoDjActiveDeck, nextAutoDjTrack, pickedFor, autoDjHistory,
                        isTransitioning, autoDjSettings, transitionIntervalRef, transitionTimeoutRef,
                        activeSongIdRef, transitions, liveIntervals, liveTimeouts, enables, nextId,
                        userOps>>
       ELSE LET activeDeckState == deck[autoDjActiveDeck]
                activeSongId == activeDeckState.song.id
                newSong == activeSongId # 0 /\ activeSongId # activeSongIdRef
                trigger == TriggerGuard(activeDeckState, autoDjSettings.transitionTrigger,
                                        transitionIntervalRef, isTransitioning)
            IN  /\ activeSongIdRef' = IF newSong THEN activeSongId ELSE activeSongIdRef
                /\ \E nextUp \in (IF newSong THEN getNextTrack(0) ELSE {nextAutoDjTrack}) :
                   \E fallbackTrack \in (IF trigger /\ nextAutoDjTrack = NoSong
                                         THEN getNextTrack(0) ELSE {nextAutoDjTrack}) :
                      IF trigger /\ fallbackTrack # NoSong
                      THEN /\ isTransitioning' = TRUE
                           /\ StartTransition(fallbackTrack)
                           /\ lastOp' = StartOp(fallbackTrack,
                                                IF nextAutoDjTrack = NoSong THEN activeSongId
                                                ELSE pickedFor, activeSongId)
                           /\ UNCHANGED isAutoDjEnabled
                      ELSE /\ lastOp' = NoOp
                           /\ nextAutoDjTrack' = nextUp
                           /\ pickedFor' = IF newSong THEN activeSongId ELSE pickedFor
                           /\ isAutoDjEnabled' = IF trigger THEN FALSE ELSE isAutoDjEnabled
                           /\ UNCHANGED <<deck, audioContext, isTransitioning, transitions,
                                          liveIntervals, liveTimeouts>>
                /\ UNCHANGED <<audio, crossfader, library, queueA, queueB, autoDjActiveDeck,
                               autoDjHistory, autoDjSettings, transitionIntervalRef,
                               transitionTimeoutRef, enables, nextId, userOps>>

\* the guard of handleAutoDjSkip
CanSkip(enabled, transitioning, nextTrack) == enabled /\ ~transitioning /\ nextTrack # NoSong

\* handleAutoDjSkip
HandleAutoDjSkip ==
    /\ ~effectPending
    /\ UNCHANGED <<session, desk>>
    /\ CanSkip(isAutoDjEnabled, isTransitioning, nextAutoDjTrack)
    /\ isTransitioning' = TRUE
    /\ StartTransition(nextAutoDjTrack)
    /\ effectPending' = TRUE
    /\ lastOp' = StartOp(nextAutoDjTrack, pickedFor, deck[autoDjActiveDeck].song.id)
    /\ UNCHANGED <<audio, crossfader, library, queueA, queueB, isAutoDjEnabled, autoDjActiveDeck,
                   autoDjHistory, autoDjSettings, transitionIntervalRef, transitionTimeoutRef,
                   activeSongIdRef, enables, nextId, userOps>>

\* handleAutoDjRepick
HandleAutoDjRepick ==
    /\ ~effectPending
    /\ UNCHANGED <<session, desk>>
    /\ isAutoDjEnabled /\ nextAutoDjTrack # NoSong
    /\ nextAutoDjTrack' \in getNextTrack(nextAutoDjTrack.id)
    /\ pickedFor' = deck[autoDjActiveDeck].song.id
    /\ effectPending' = TRUE
    /\ lastOp' = [NoOp EXCEPT !.op = "handleAutoDjRepick", !.avoid = nextAutoDjTrack.id,
                              !.pick = nextAutoDjTrack']
    /\ UNCHANGED <<deck, audio, audioContext, crossfader, library, queueA, queueB, isAutoDjEnabled,
                   autoDjActiveDeck, autoDjHistory, isTransitioning, autoDjSettings,
                   transitionIntervalRef, transitionTimeoutRef, activeSongIdRef, transitions,
                   liveIntervals, liveTimeouts, enables, nextId, userOps>>

\* ----------------------------------------------------------- user and clock
\* the play button (or MIDI deckX_play) of a deck
TogglePlay(d) ==
    /\ ~effectPending
    /\ UNCHANGED <<session, desk>>
    /\ userOps < session.userOps
    /\ userOps' = userOps + 1
    /\ audioContext' = TRUE
    /\ deck' = [deck EXCEPT ![d] = TogglePlayDeck(deck[d], SnapDeck(deck[d]), audio[d], NoRate)]
    /\ audio' = [audio EXCEPT ![d] = TogglePlayAudio(audio[d], SnapDeck(deck[d]))]
    /\ effectPending' = TRUE
    /\ lastOp' = NoOp
    /\ UNCHANGED <<crossfader, library, queueA, queueB, isAutoDjEnabled, autoDjActiveDeck,
                   nextAutoDjTrack, pickedFor, autoDjHistory, isTransitioning, autoDjSettings,
                   transitionIntervalRef, transitionTimeoutRef, activeSongIdRef, transitions,
                   liveIntervals, liveTimeouts, enables, nextId>>

\* the pitch fader (or MIDI deckX_pitch: 0.9 + value / 127 * 0.2) of a deck
PitchChoices == {Rate(11, 10)}
HandlePitchChange(d, newRate) ==
    /\ ~effectPending
    /\ UNCHANGED <<session, desk>>
    /\ userOps < session.userOps
    /\ deck[d].playbackRate # newRate
    /\ userOps' = userOps + 1
    /\ deck' = [deck EXCEPT ![d] = PitchChanged(deck[d], newRate)]
    /\ effectPending' = TRUE
    /\ lastOp' = NoOp
    /\ UNCHANGED <<audio, audioContext, crossfader, library, queueA, queueB, isAutoDjEnabled,
                   autoDjActiveDeck, nextAutoDjTrack, pickedFor, autoDjHistory, isTransitioning,
                   autoDjSettings, transitionIntervalRef, transitionTimeoutRef, activeSongIdRef,
                   transitions, liveIntervals, liveTimeouts, enables, nextId>>

\* one animation frame: updateLoop, after the wall-clock time elapsed (ms) since the
\* last one; a deck advances by elapsed * playbackRate
Elapsed == {20000}
UpdateLoopAfter(elapsed) ==
    /\ ~effectPending
    /\ UNCHANGED <<session, desk>>
    /\ LET adv == [d \in DECKS |-> (elapsed * deck[d].playbackRate[1]) \div deck[d].playbackRate[2]]
       IN  /\ deck' = [d \in DECKS |-> ProcessDeck(deck[d], adv[d])]
           /\ audio' = [d \in DECKS |-> ProcessAudio(audio[d], deck[d], adv[d])]
    /\ deck' # deck
    /\ effectPending' = TRUE
    /\ lastOp' = NoOp
    /\ UNCHANGED <<audioContext, crossfader, library, queueA, queueB, isAutoDjEnabled,
                   autoDjActiveDeck, nextAutoDjTrack, pickedFor, autoDjHistory, isTransitioning,
                   autoDjSettings, transitionIntervalRef, transitionTimeoutRef, activeSongIdRef,
                   transitions, liveIntervals, liveTimeouts, enables, nextId, userOps>>

UpdateLoop == \E elapsed \in Elapsed : UpdateLoopAfter(elapsed)

\* addSongsToLibrary with the next file of FILES, when its name is not in the library yet
AddSongsToLibrary ==
    /\ ~effectPending
    /\ UNCHANGED <<session, desk>>
    /\ Len(library) < session.lib
    /\ LET name == FILES[Len(library) + 1].name
       IN  library' = Append(library, LibrarySong(nextId, name))
    /\ nextId' = nextId + 1
    /\ effectPending' = TRUE
    /\ lastOp' = NoOp
    /\ UNCHANGED <<deck, audio, audioContext, crossfader, queueA, queueB, isAutoDjEnabled,
                   autoDjActiveDeck, nextAutoDjTrack, pickedFor, autoDjHistory, isTransitioning,
                   autoDjSettings, transitionIntervalRef, transitionTimeoutRef, activeSongIdRef,
                   transitions, liveIntervals, liveTimeouts, enables, userOps>>

\* ------------------------------------------------------------ specification
\* the settings the user has chosen in the Auto-DJ panel
STYLES == {"Smart", "Crossfade", "Cut", "Fade In/Out", "EQ Fade", "Loop Out", "Filter Fade"}
SettingsChoices ==
    {[DefaultSettings EXCEPT !.transitionType = ty,
                             !.beatMatch = ty \in {"Smart", "Fade In/Out", "EQ Fade"},
                             !.autoGain = ty \in {"Smart", "Cut", "Loop Out"},
                             !.shuffle = FALSE] : ty \in STYLES}

\* the sessions explored: every style with one switch-on, and one session in which
\* Auto-DJ is switched off and on again
Sessions ==
    {<<st, [lib |-> MaxLib, trans |-> MaxTrans, enable |-> MaxEnable, userOps |-> MaxUserOps]>> :
        st \in SettingsChoices}
    \cup {<<st, [lib |-> ReentryLib, trans |-> ReentryTrans, enable |-> ReentryEnable,
                 userOps |-> ReentryUserOps]>> :
             st \in {c \in SettingsChoices : c.transitionType = "Cut"}}

Init ==
    /\ deck = [d \in DECKS |-> InitDeck]
    /\ audio = [d \in DECKS |-> InitAudio]
    /\ audioContext = FALSE
    /\ crossfader = 0
    /\ library = <<>> /\ queueA = <<>> /\ queueB = <<>>
    /\ isAutoDjEnabled = FALSE /\ autoDjActiveDeck = "A" /\ nextAutoDjTrack = NoSong
    /\ pickedFor = 0
    /\ autoDjHistory = <<>> /\ isTransitioning = FALSE
    /\ \E ss \in Sessions : autoDjSettings = ss[1] /\ session = ss[2]
    /\ transitionIntervalRef = 0 /\ transitionTimeoutRef = 0 /\ activeSongIdRef = 0
    /\ transitions = <<>> /\ liveIntervals = {} /\ liveTimeouts = {}
    /\ enables = <<>>
    /\ nextId = 1
    /\ effectPending = FALSE
    /\ userOps = 0
    /\ lastOp = NoOp
    /\ InitDesk

Next ==
    \/ AddSongsToLibrary
    \/ EnableAutoDj
    \/ DisableAutoDj
    \/ \E j \in DOMAIN enables : EnableLoadDone(j)
    \/ \E j \in DOMAIN enables : EnableLoadFail(j)
    \/ AutoDjEffect
    \/ HandleAutoDjSkip
    \/ HandleAutoDjRepick
    \/ \E i \in DOMAIN transitions : TransLoadDone(i)
    \/ \E i \in DOMAIN transitions : TransLoadFail(i)
    \/ \E i \in DOMAIN transitions : IntervalTick(i)
    \/ \E i \in DOMAIN transitions : SettleTimeout(i)
    \/ \E d \in DECKS : TogglePlay(d)
    \/ \E d \in DECKS : \E r \in PitchChoices : HandlePitchChange(d, r)
    \/ UpdateLoop

Spec == Init /\ [][Next]_vars

\* --------------------------------------------- the selection specification
\* getNextTrack on the libraries, histories and current tracks that loading files,
\* adding them to the library, queueing them and Auto-DJ change-overs produce.
PickCriteria(ef, ar, bm, gm, hm, sh) ==
    [DefaultSettings EXCEPT !.energyFlow = ef, !.avoidRepeatingArtist = ar, !.bpmMatch.enabled = bm,
                            !.genreMatch = gm, !.harmonicMix = hm, !.shuffle = sh]
PickSettings ==
    {PickCriteria(ef, ar, bm, gm, hm, FALSE) :
        ef \in {"Any", "Increase"}, ar \in BOOLEAN, bm \in BOOLEAN, gm \in BOOLEAN, hm \in BOOLEAN}
    \cup {PickCriteria(ef, FALSE, FALSE, FALSE, FALSE, TRUE) : ef \in {"Maintain", "Decrease"}}
    \cup {DefaultSettings, [DefaultSettings EXCEPT !.playlistSource = "queues"]}

PickFiles == {FILES[k].name : k \in 1..PickLib}
InLibrary(name) == \E i \in DOMAIN library : library[i].name = name

InitPick ==
    /\ deck = [d \in DECKS |-> InitDeck]
    /\ audio = [d \in DECKS |-> InitAudio]
    /\ audioContext = FALSE
    /\ crossfader = 0
    /\ library = <<>> /\ queueA = <<>> /\ queueB = <<>>
    /\ isAutoDjEnabled = FALSE /\ autoDjActiveDeck = "A" /\ nextAutoDjTrack = NoSong
    /\ pickedFor = 0
    /\ autoDjHistory = <<>> /\ isTransitioning = FALSE
    /\ autoDjSettings \in PickSettings
    /\ transitionIntervalRef = 0 /\ transitionTimeoutRef = 0 /\ activeSongIdRef = 0
    /\ transitions = <<>> /\ liveIntervals = {} /\ liveTimeouts = {}
    /\ enables = <<>>
    /\ nextId = 1
    /\ effectPending = FALSE
    /\ userOps = 0
    /\ session = [lib |-> PickLib, trans |-> 0, enable |-> 0, userOps |-> PickLoads]
    /\ lastOp = NoOp
    /\ InitDesk

\* addSongsToLibrary with the first file of FILES that is not in the library
PickAddSongs ==
    /\ Len(library) < session.lib
    /\ LET k == CHOOSE k \in 1..PickLib :
                    ~InLibrary(FILES[k].name) /\ \A j \in 1..(k - 1) : InLibrary(FILES[j].name)
       IN  library' = Append(library, LibrarySong(nextId, FILES[k].name))
    /\ nextId' = nextId + 1
    /\ lastOp' = NoOp
    /\ UNCHANGED <<deck, audio, audioContext, crossfader, queueA, queueB, isAutoDjEnabled,
                   autoDjActiveDeck, nextAutoDjTrack, pickedFor, autoDjHistory, isTransitioning,
                   autoDjSettings, transitionIntervalRef, transitionTimeoutRef, activeSongIdRef,
                   transitions, liveIntervals, liveTimeouts, enables, effectPending, userOps,
                   session, desk>>

\* loadSong(file, deck) by the user, onto the active deck: a file of the library or a new one
PickLoadSong ==
    /\ userOps < session.userOps
    /\ userOps' = userOps + 1
    /\ \E name \in PickFiles :
          /\ InLibrary(name) \/ Len(library) < session.lib
          /\ library' = LoadedLibrary(library, nextId, name)
          /\ deck' = [deck EXCEPT ![autoDjActiveDeck] = LoadedDeck(@, nextId, name)]
          /\ audio' = [audio EXCEPT ![autoDjActiveDeck] = LoadedAudio(@, name)]
    /\ nextId' = nextId + 1
    /\ audioContext' = TRUE
    /\ lastOp' = NoOp
    /\ UNCHANGED <<crossfader, queueA, queueB, isAutoDjEnabled, autoDjActiveDeck, nextAutoDjTrack, pickedFor,
                   autoDjHistory, isTransitioning, autoDjSettings, transitionIntervalRef,
                   transitionTimeoutRef, activeSongIdRef, transitions, liveIntervals,
                   liveTimeouts, enables, effectPending, session, desk>>

\* handleAddToQueue(song, deckId) with a song of the library, at the end of the queue
PickAddToQueue ==
    /\ autoDjSettings.playlistSource = "queues"
    /\ \E d \in DECKS : \E i \in DOMAIN library :
          /\ Len(queueA) + Len(queueB) < PickQueue
          /\ queueA' = IF d = "A" THEN Append(queueA, library[i]) ELSE queueA
          /\ queueB' = IF d = "B" THEN Append(queueB, library[i]) ELSE queueB
    /\ lastOp' = NoOp
    /\ UNCHANGED <<deck, audio, audioContext, crossfader, library, isAutoDjEnabled,
                   autoDjActiveDeck, nextAutoDjTrack, pickedFor, autoDjHistory, isTransitioning,
                   autoDjSettings, transitionIntervalRef, transitionTimeoutRef, activeSongIdRef,
                   transitions, liveIntervals, liveTimeouts, enables, nextId, effectPending,
                   userOps, session, desk>>

\* An Auto-DJ change-over from start to finish: startTransition with the track
\* getNextTrack gives, its loadSong onto the other deck, and finishTransition.
PickChangeOver ==
    LET fromDeck == autoDjActiveDeck
        toDeck == OtherDeck(fromDeck)
    IN  /\ deck[fromDeck].song # NoSong
        /\ Len(autoDjHistory) < PickHist
        /\ \E nextTrack \in getNextTrack(0) \ {NoSong} :
              /\ library' = LoadedLibrary(library, nextId, nextTrack.name)
              /\ deck' = [d \in DECKS |->
                             IF d = fromDeck THEN FinishedDeck(deck[d])
                             ELSE [LoadedDeck(deck[d], nextId, nextTrack.name) EXCEPT !.isPlaying = TRUE]]
              /\ audio' = [audio EXCEPT ![toDeck] = [LoadedAudio(@, nextTrack.name) EXCEPT !.source = "live"],
                                        ![fromDeck].source = IF @ = "none" THEN "none" ELSE "stopped"]
        /\ nextId' = nextId + 1
        /\ audioContext' = TRUE
        /\ crossfader' = FinishedCrossfader(fromDeck)
        /\ autoDjActiveDeck' = toDeck
        /\ autoDjHistory' = <<deck[fromDeck].song>> \o autoDjHistory
        /\ queueA' = IF autoDjSettings.playlistSource = "queues" /\ toDeck = "A" THEN Tail0(queueA) ELSE queueA
        /\ queueB' = IF autoDjSettings.playlistSource = "queues" /\ toDeck = "B" THEN Tail0(queueB) ELSE queueB
        /\ lastOp' = NoOp
        /\ UNCHANGED <<isAutoDjEnabled, nextAutoDjTrack, pickedFor, isTransitioning, autoDjSettings,
                       transitionIntervalRef, transitionTimeoutRef, activeSongIdRef, transitions,
                       liveIntervals, liveTimeouts, enables, effectPending, userOps, session, desk>>

\* the ids a caller passes as avoidTrackId: none, or that of a library or queue record
AvoidIds == {0} \cup {library[i].id : i \in DOMAIN library}

\* getNextTrack(avoidTrackId), its argument and result kept in lastOp
Pick ==
    /\ \E avoidTrackId \in AvoidIds : \E track \in getNextTrack(avoidTrackId) :
          lastOp' = [NoOp EXCEPT !.op = "getNextTrack", !.avoid = avoidTrackId, !.pick = track]
    /\ UNCHANGED <<deck, audio, audioContext, crossfader, library, queueA, queueB, isAutoDjEnabled,
                   autoDjActiveDeck, nextAutoDjTrack, pickedFor, autoDjHistory, isTransitioning,
                   autoDjSettings, transitionIntervalRef, transitionTimeoutRef, activeSongIdRef,
                   transitions, liveIntervals, liveTimeouts, enables, nextId, effectPending,
                   userOps, session, desk>>

NextPick ==
    \/ PickAddSongs
    \/ PickLoadSong
    \/ PickAddToQueue
    \/ PickChangeOver
    \/ Pick

SpecPick == InitPick /\ [][NextPick]_vars

\* ------------------------------------------------ the repick specification
\* The cached next pick and its manual repick, with tracks of the library queued
\* for the decks: addSongsToLibrary, handleAddToQueue, toggleAutoDj, the Auto-DJ
\* effect and handleAutoDjRepick, under either track source.
RepickSettings ==
    {[DefaultSettings EXCEPT !.playlistSource = src, !.shuffle = sh] :
        src \in {"library", "queues"}, sh \in BOOLEAN}

\* handleAddToQueue(song, deckId) with a song of the library, pushed at the end
HandleAddToQueue(song, deckId) ==
    /\ ~effectPending
    /\ Len(queueA) + Len(queueB) < RepickQueue
    /\ queueA' = IF deckId = "A" THEN Append(queueA, song) ELSE queueA
    /\ queueB' = IF deckId = "B" THEN Append(queueB, song) ELSE queueB
    /\ effectPending' = TRUE
    /\ lastOp' = NoOp
    /\ UNCHANGED <<deck, audio, audioContext, crossfader, library, isAutoDjEnabled,
                   autoDjActiveDeck, nextAutoDjTrack, pickedFor, autoDjHistory, isTransitioning,
                   autoDjSettings, transitionIntervalRef, transitionTimeoutRef, activeSongIdRef,
                   transitions, liveIntervals, liveTimeouts, enables, nextId, userOps, session, desk>>

InitRepick ==
    /\ deck = [d \in DECKS |-> InitDeck]
    /\ audio = [d \in DECKS |-> InitAudio]
    /\ audioContext = FALSE
    /\ crossfader = 0
    /\ library = <<>> /\ queueA = <<>> /\ queueB = <<>>
    /\ isAutoDjEnabled = FALSE /\ autoDjActiveDeck = "A" /\ nextAutoDjTrack = NoSong
    /\ pickedFor = 0
    /\ autoDjHistory = <<>> /\ isTransitioning = FALSE
    /\ autoDjSettings \in RepickSettings
    /\ transitionIntervalRef = 0 /\ transitionTimeoutRef = 0 /\ activeSongIdRef = 0
    /\ transitions = <<>> /\ liveIntervals = {} /\ liveTimeouts = {}
    /\ enables = <<>>
    /\ nextId = 1
    /\ effectPending = FALSE
    /\ userOps = 0
    /\ session = [lib |-> RepickLib, trans |-> 0, enable |-> RepickEnable, userOps |-> 0]
    /\ lastOp = NoOp
    /\ InitDesk

NextRepick ==
    \/ AddSongsToLibrary
    \/ \E i \in DOMAIN library : \E d \in DECKS : HandleAddToQueue(library[i], d)
    \/ EnableAutoDj
    \/ \E j \in DOMAIN enables : EnableLoadDone(j)
    \/ AutoDjEffect
    \/ HandleAutoDjRepick

SpecRepick == InitRepick /\ [][NextRepick]_vars

\* -------------------------------------------------- the Camelot specification
\* getCompatibleKeys on the key of the playing track and the test the harmonic
\* filter of getNextTrack makes of a candidate's key, for every pair of keys.
\* The application itself stays as constructed.
studio == <<deck, audio, audioContext, crossfader, library, queueA, queueB, isAutoDjEnabled,
            autoDjActiveDeck, nextAutoDjTrack, pickedFor, autoDjHistory, isTransitioning,
            autoDjSettings, transitionIntervalRef, transitionTimeoutRef, activeSongIdRef,
            transitions, liveIntervals, liveTimeouts, enables, nextId, effectPending, userOps,
            session>>

InitStudio ==
    /\ deck = [d \in DECKS |-> InitDeck]
    /\ audio = [d \in DECKS |-> InitAudio]
    /\ audioContext = FALSE
    /\ crossfader = 0
    /\ library = <<>> /\ queueA = <<>> /\ queueB = <<>>
    /\ isAutoDjEnabled = FALSE /\ autoDjActiveDeck = "A" /\ nextAutoDjTrack = NoSong
    /\ pickedFor = 0
    /\ autoDjHistory = <<>> /\ isTransitioning = FALSE
    /\ autoDjSettings = DefaultSettings
    /\ transitionIntervalRef = 0 /\ transitionTimeoutRef = 0 /\ activeSongIdRef = 0
    /\ transitions = <<>> /\ liveIntervals = {} /\ liveTimeouts = {}
    /\ enables = <<>>
    /\ nextId = 1
    /\ effectPending = FALSE
    /\ userOps = 0
    /\ session = [lib |-> 0, trans |-> 0, enable |-> 0, userOps |-> 0]

\* the keys a track can carry: those of the wheel, or none
KeyInputs == Range(CAMELOT_KEYS) \cup {<<>>}

InitKeys ==
    /\ InitStudio
    /\ InitDesk
    /\ \E key \in KeyInputs : \E candidate \in KeyInputs :
          lastOp = [NoOp EXCEPT !.key = key, !.candidate = candidate]

\* the harmonic filter's use of getCompatibleKeys (when the current track has a key)
HarmonicMix ==
    /\ lastOp.op = "none" /\ lastOp.key # <<>>
    /\ LET compatibleKeys == getCompatibleKeys(lastOp.key)
       IN  lastOp' = [lastOp EXCEPT !.op = "getCompatibleKeys", !.keys = compatibleKeys,
                                    !.match = lastOp.candidate # <<>>
                                              /\ Contains(compatibleKeys, lastOp.candidate)]
    /\ UNCHANGED <<studio, desk>>

NextKeys == HarmonicMix

SpecKeys == InitKeys /\ [][NextKeys]_vars

\* ----------------------------------------------------------------- mixer
\* Gains are kept in millionths, rounded up, so that a gain is 0 only when the
\* double the code computes is 0.  Math.cos and Math.sin at position * Math.PI / 2 for
\* the positions 0, 0.05 .. 1 (Math.cos(Math.PI / 2) is 6.1e-17, Math.sin(0) is 0)
CosTable ==
    << 1000000, 996918, 987689, 972370, 951057, 923880, 891007,
       852641, 809017, 760406, 707107, 649449, 587786, 522499,
       453991, 382684, 309017, 233446, 156435, 78460, 1 >>
SinTable ==
    << 0, 78460, 156435, 233446, 309017, 382684, 453991,
       522499, 587786, 649449, 707107, 760406, 809017, 852641,
       891007, 923880, 951057, 972370, 987689, 996918, 1000000 >>
MathCos(position) == CosTable[position \div 50 + 1]
MathSin(position) == SinTable[position \div 50 + 1]

\* the 'fast-cut' case at a position (thousandths), by the branch of `position < 0.5`
FastCut(position, below) ==
    LET p == IF position < 500 THEN 2 * position ELSE 2 * (1000 - position)
        shapedP == p * p * p
    IN  IF below THEN <<1000000 - shapedP \div 2000, shapedP \div 2000>>
        ELSE <<shapedP \div 2000, 1000000 - shapedP \div 2000>>

\* the crossfader law: the gains <<gainA, gainB>> at crossfader position cf
\* (thousandths, -1000 .. 1000) under a curve
FaderGains(curve, cf) ==
    LET position == (cf + 1000) \div 2
    IN  CASE curve = "slow-fade" -> <<MathCos(position), MathSin(position)>>
          [] curve = "fast-cut" -> FastCut(position, position < 500)
          [] OTHER -> <<1000 * (1000 - position), 1000 * position>>
FaderLaw(curve, cf, deckId) ==
    IF deckId = "A" THEN FaderGains(curve, cf)[1] ELSE FaderGains(curve, cf)[2]

\* the crossfader effect: gainNode.gain.setValueAtTime(volume * gain) on the fader
\* nodes that exist (volume in thousandths x gain in millionths)
CrossfaderEffect(fg, dk, cf, curve) ==
    [d \in DECKS |-> IF fg[d] = -1 THEN -1 ELSE dk[d].volume * FaderLaw(curve, cf, d)]

\* positions of the crossfader, the volume faders and the curve selector
CrossfaderStops == {-1000, 0, 1000}
\* every tenth of the crossfader's travel
FaderPositions == {100 * i - 1000 : i \in 0..20}
VolumeStops == {500, 1000}
CrossfaderCurves == {"linear", "slow-fade", "fast-cut"}
\* positions the user seeks to on the waveform (ms)
SeekStops == {0, 10000}
\* gain.value of a GainNode as createGain() returns it: 1.0
DefaultGain == 1000000000
MixStudio == <<queueA, queueB, isAutoDjEnabled, autoDjActiveDeck, nextAutoDjTrack, pickedFor,
               autoDjHistory, isTransitioning, autoDjSettings, transitionIntervalRef,
               transitionTimeoutRef, activeSongIdRef, transitions, liveIntervals, liveTimeouts,
               enables, effectPending, userOps, session, midiMapping, reverseMidiMapping,
               isMidiLearning, midiHandler, midiDirty, mappingEffectDue, tapTempoTimestamps,
               metronomeBpm, rack, booth>>

MixLoadSong(d, name) ==
    /\ ~mixEffectDue
    /\ nextId <= MixLoads
    /\ nextId' = nextId + 1
    /\ audioContext' = TRUE
    /\ deck' = [deck EXCEPT ![d] = LoadedDeck(deck[d], nextId, name)]
    /\ audio' = [audio EXCEPT ![d] = LoadedAudio(audio[d], name)]
    /\ library' = LoadedLibrary(library, nextId, name)
    /\ faderGain' = [faderGain EXCEPT ![d] = -1]
    /\ lastOp' = NoOp
    /\ UNCHANGED <<MixStudio, crossfader, crossfaderCurve, mixEffectDue>>

\* togglePlay: a start connects a new faderGainNode and keeps it as gainNode
MixTogglePlay(d) ==
    /\ ~mixEffectDue
    /\ deck[d].song # NoSong
    /\ deck' = [deck EXCEPT ![d] = TogglePlayDeck(deck[d], SnapDeck(deck[d]), audio[d], NoRate)]
    /\ audio' = [audio EXCEPT ![d] = TogglePlayAudio(audio[d], SnapDeck(deck[d]))]
    /\ faderGain' = [faderGain EXCEPT ![d] = IF ~deck[d].isPlaying /\ audio[d].buffer # <<>>
                                              THEN DefaultGain ELSE @]
    /\ lastOp' = [NoOp EXCEPT !.op = "togglePlay"]
    /\ UNCHANGED <<MixStudio, audioContext, library, nextId, crossfader, crossfaderCurve,
                   mixEffectDue>>

\* seekDeck: on a playing deck it stops the source and starts a new one behind a
\* new faderGainNode
MixSeek(d, newTime) ==
    /\ ~mixEffectDue
    /\ deck[d].song # NoSong
    /\ deck' = [deck EXCEPT ![d] = SeekDeckState(deck[d], SnapDeck(deck[d]), newTime)]
    /\ audio' = [audio EXCEPT ![d] = IF SeekRestarts(SnapDeck(deck[d]), audio[d])
                                      THEN [@ EXCEPT !.source = "live"] ELSE @]
    /\ faderGain' = [faderGain EXCEPT ![d] = IF SeekRestarts(SnapDeck(deck[d]), audio[d])
                                              THEN DefaultGain ELSE @]
    /\ lastOp' = [NoOp EXCEPT !.op = "seekDeck"]
    /\ UNCHANGED <<MixStudio, audioContext, library, nextId, crossfader, crossfaderCurve,
                   mixEffectDue>>

SetCrossfader(value) ==
    /\ ~mixEffectDue
    /\ value # crossfader
    /\ crossfader' = value
    /\ mixEffectDue' = TRUE
    /\ lastOp' = NoOp
    /\ UNCHANGED <<MixStudio, deck, audio, audioContext, library, nextId, faderGain,
                   crossfaderCurve>>

SetDeckVolume(d, volume) ==
    /\ ~mixEffectDue
    /\ volume # deck[d].volume
    /\ deck' = [deck EXCEPT ![d].volume = volume]
    /\ mixEffectDue' = TRUE
    /\ lastOp' = NoOp
    /\ UNCHANGED <<MixStudio, audio, audioContext, library, nextId, faderGain, crossfader,
                   crossfaderCurve>>

SetCrossfaderCurve(curve) ==
    /\ ~mixEffectDue
    /\ curve # crossfaderCurve
    /\ crossfaderCurve' = curve
    /\ mixEffectDue' = TRUE
    /\ lastOp' = NoOp
    /\ UNCHANGED <<MixStudio, deck, audio, audioContext, library, nextId, faderGain,
                   crossfader>>

\* the effect on [crossfader, masterVolume, deckA.volume, deckB.volume, crossfaderCurve]
MixerEffect ==
    /\ mixEffectDue
    /\ faderGain' = CrossfaderEffect(faderGain, deck, crossfader, crossfaderCurve)
    /\ mixEffectDue' = FALSE
    /\ lastOp' = [NoOp EXCEPT !.op = "crossfaderEffect",
                              !.gains = FaderGains(crossfaderCurve, crossfader)]
    /\ UNCHANGED <<MixStudio, deck, audio, audioContext, library, nextId, crossfader,
                   crossfaderCurve>>

InitMixer ==
    /\ InitStudio
    /\ InitDesk
    /\ lastOp = NoOp

NextMixer ==
    \/ \E d \in DECKS : MixLoadSong(d, FILES[1].name)
    \/ \E d \in DECKS : MixTogglePlay(d)
    \/ \E d \in DECKS : \E newTime \in SeekStops : MixSeek(d, newTime)
    \/ \E value \in CrossfaderStops : SetCrossfader(value)
    \/ \E d \in DECKS : \E volume \in VolumeStops : SetDeckVolume(d, volume)
    \/ \E curve \in CrossfaderCurves : SetCrossfaderCurve(curve)
    \/ MixerEffect

SpecMixer == InitMixer /\ [][NextMixer]_vars

\* the crossfader and the curve selector alone, over the whole travel
NextFader ==
    \/ \E value \in FaderPositions : SetCrossfader(value)
    \/ \E curve \in CrossfaderCurves : SetCrossfaderCurve(curve)
    \/ MixerEffect

SpecFader == InitMixer /\ [][NextFader]_vars

\* ------------------------------------------------------------------- MIDI
\* midiMapping[control], NoMessage when the object has no such key
MappingOf(mapping, control) ==
    IF \E i \in DOMAIN mapping : mapping[i].control = control
    THEN mapping[CHOOSE i \in DOMAIN mapping : mapping[i].control = control].message
    ELSE NoMessage

\* a learn capture that only sets the learned control, leaving other holders of the message
LearnKeepsOthers(mapping, control, messageId) ==
    IF \E i \in DOMAIN mapping : mapping[i].control = control
    THEN [i \in DOMAIN mapping |-> IF mapping[i].control = control
                                   THEN [control |-> control, message |-> messageId]
                                   ELSE mapping[i]]
    ELSE Append(mapping, [control |-> control, message |-> messageId])

\* the updater of setMidiMapping in learn mode: delete every key bound to the
\* message, then newMapping[isMidiLearning] = messageId
Learn(mapping, control, messageId) ==
    LET kept == SelectSeq(mapping, LAMBDA e : e.message # messageId)
    IN  IF \E i \in DOMAIN kept : kept[i].control = control
        THEN [i \in DOMAIN kept |-> IF kept[i].control = control
                                    THEN [control |-> control, message |-> messageId]
                                    ELSE kept[i]]
        ELSE Append(kept, [control |-> control, message |-> messageId])

\* the effect on [midiMapping]: for (control in midiMapping) newReverseMapping[messageId] = control
ReverseOf(mapping) ==
    [m \in MessageIds |->
        IF \E i \in DOMAIN mapping : mapping[i].message = m
        THEN mapping[CHOOSE i \in DOMAIN mapping :
                        /\ mapping[i].message = m
                        /\ \A j \in DOMAIN mapping : mapping[j].message = m => j <= i].control
        ELSE NoControl]

\* handleControlAction(controlId, value) for the mixer controls
ControlVolume(dk, controlId, value) ==
    [d \in DECKS |-> IF controlId = (IF d = "A" THEN "deckA_volume" ELSE "deckB_volume")
                     THEN [dk[d] EXCEPT !.volume = (value * 1000) \div 127]
                     ELSE dk[d]]
ControlCrossfader(cf, controlId, value) ==
    IF controlId = "crossfader" THEN (value * 2000) \div 127 - 1000 ELSE cf

\* onSetLearningTarget(control) of the MIDI panel: setIsMidiLearning
SetLearningTarget(control) ==
    /\ control # isMidiLearning
    /\ userOps < MaxLearns
    /\ userOps' = userOps + 1
    /\ isMidiLearning' = control
    /\ midiDirty' = TRUE
    /\ lastOp' = NoOp
    /\ UNCHANGED <<deck, audio, audioContext, library, queueA, queueB, crossfader,
                   isAutoDjEnabled, autoDjActiveDeck, nextAutoDjTrack, pickedFor,
                   autoDjHistory, isTransitioning, autoDjSettings, transitionIntervalRef,
                   transitionTimeoutRef, activeSongIdRef, transitions, liveIntervals,
                   liveTimeouts, enables, nextId, effectPending, session, midiMapping, reverseMidiMapping, midiHandler, mappingEffectDue,
                   tapTempoTimestamps, metronomeBpm, faderGain, crossfaderCurve, mixEffectDue, rack, booth>>

\* handleMidiMessage(event), as the closure attached to the device: it reads the
\* isMidiLearning and reverseMidiMapping of the render that created it
HandleMidiMessage(event) ==
    LET messageId == MessageId(event)
        learning == midiHandler.isMidiLearning
        targetControl == midiHandler.reverseMidiMapping[messageId]
    IN  /\ messageId # NoMessage
        /\ midiDirty' = TRUE
        /\ IF learning # NoControl
           THEN /\ midiMapping' = Learn(midiMapping, learning, messageId)
                /\ isMidiLearning' = NoControl
                /\ mappingEffectDue' = TRUE
                /\ lastOp' = [NoOp EXCEPT !.op = "learn", !.control = learning,
                                          !.message = messageId, !.mapping = midiMapping]
                /\ UNCHANGED <<deck, crossfader, mixEffectDue>>
           ELSE /\ deck' = ControlVolume(deck, targetControl, event[3])
                /\ crossfader' = ControlCrossfader(crossfader, targetControl, event[3])
                /\ mixEffectDue' = (mixEffectDue \/ targetControl # NoControl)
                /\ lastOp' = [NoOp EXCEPT !.op = "dispatch", !.control = targetControl,
                                          !.message = messageId]
                /\ UNCHANGED <<midiMapping, isMidiLearning, mappingEffectDue>>
        /\ UNCHANGED <<audio, audioContext, library, queueA, queueB, isAutoDjEnabled,
                       autoDjActiveDeck, nextAutoDjTrack, pickedFor, autoDjHistory,
                       isTransitioning, autoDjSettings, transitionIntervalRef,
                       transitionTimeoutRef, activeSongIdRef, transitions, liveIntervals,
                       liveTimeouts, enables, nextId, effectPending, userOps, session,
                       reverseMidiMapping, midiHandler, tapTempoTimestamps, metronomeBpm,
                       faderGain, crossfaderCurve, rack, booth>>

\* a render is committed and its effects run: the effect on [midiMapping] rebuilds
\* the reverse mapping with setReverseMidiMapping (seen by the next render), the
\* listener effect attaches this render's handleMidiMessage, the crossfader effect
\* sets the fader gains
MidiCommit ==
    /\ midiDirty
    /\ midiHandler' = [isMidiLearning |-> isMidiLearning, reverseMidiMapping |-> reverseMidiMapping]
    /\ reverseMidiMapping' = IF mappingEffectDue THEN ReverseOf(midiMapping) ELSE reverseMidiMapping
    /\ midiDirty' = mappingEffectDue
    /\ mappingEffectDue' = FALSE
    /\ faderGain' = IF mixEffectDue THEN CrossfaderEffect(faderGain, deck, crossfader, crossfaderCurve)
                    ELSE faderGain
    /\ mixEffectDue' = FALSE
    /\ lastOp' = NoOp
    /\ UNCHANGED <<studio, midiMapping, isMidiLearning, tapTempoTimestamps, metronomeBpm,
                   crossfaderCurve, rack, booth>>

InitMidi ==
    /\ InitStudio
    /\ InitDesk
    /\ lastOp = NoOp

NextMidi ==
    \/ \E control \in CONTROLS \cup {NoControl} : SetLearningTarget(control)
    \/ \E event \in MidiEvents : HandleMidiMessage(event)
    \/ MidiCommit

SpecMidi == InitMidi /\ [][NextMidi]_vars

\* ------------------------------------------------------------------ loops
\* the loop pads: in, out, exit, reloop and the N-beat auto-loop
LoopTypes == {[kind |-> k, beats |-> 0] : k \in {"in", "out", "exit", "reloop"}}
                 \cup {[kind |-> "beats", beats |-> 4]}
\* the file the loop specification loads (120 BPM, 30 s)
LoopFile == FILES[3].name
\* wall-clock ms between two animation frames
LoopElapsed == {1000, 4000, 10000}

\* handleSetLoop on the rendered DeckState deckState: the deck after its setDeckState
SetLoop(dk, deckState, type) ==
    CASE type.kind = "beats" ->
           IF deckState.bpm = 0 THEN dk
           ELSE [dk EXCEPT !.loop =
                    [start |-> deckState.currentTime,
                     end |-> Min(deckState.currentTime + (type.beats * 60000) \div deckState.bpm,
                                 deckState.duration),
                     active |-> TRUE]]
      [] type.kind = "in" ->
           [dk EXCEPT !.loop = [start |-> dk.currentTime, end |-> -1, active |-> FALSE]]
      [] type.kind = "out" ->
           IF deckState.loop.start # -1 /\ deckState.currentTime > deckState.loop.start
           THEN [dk EXCEPT !.loop = [deckState.loop EXCEPT !.end = deckState.currentTime,
                                                           !.active = TRUE]]
           ELSE dk
      [] type.kind = "exit" -> [dk EXCEPT !.loop = [deckState.loop EXCEPT !.active = FALSE]]
      [] type.kind = "reloop" ->
           IF deckState.loop.start # -1 /\ deckState.loop.end # -1
           THEN [dk EXCEPT !.loop = [deckState.loop EXCEPT !.active = TRUE]]
           ELSE dk

\* processDeck: the simulated time newTime at which it takes the loop branch, -1 when
\* it does not
WrapTime(dk, adv) ==
    IF /\ dk.isPlaying
       /\ dk.loop.active /\ dk.loop.start # -1 /\ dk.loop.end # -1
       /\ dk.currentTime + adv >= dk.loop.end
    THEN dk.currentTime + adv ELSE -1

LoopLoadSong(d) ==
    /\ nextId <= LoopLoads
    /\ nextId' = nextId + 1
    /\ audioContext' = TRUE
    /\ deck' = [deck EXCEPT ![d] = LoadedDeck(deck[d], nextId, LoopFile)]
    /\ audio' = [audio EXCEPT ![d] = LoadedAudio(audio[d], LoopFile)]
    /\ library' = LoadedLibrary(library, nextId, LoopFile)
    /\ lastOp' = NoOp
    /\ UNCHANGED <<crossfader, queueA, queueB, isAutoDjEnabled, autoDjActiveDeck,
                   nextAutoDjTrack, pickedFor, autoDjHistory, isTransitioning, autoDjSettings,
                   transitionIntervalRef, transitionTimeoutRef, activeSongIdRef, transitions,
                   liveIntervals, liveTimeouts, enables, effectPending, userOps, session, desk>>

LoopTogglePlay(d) ==
    /\ deck[d].song # NoSong
    /\ deck' = [deck EXCEPT ![d] = TogglePlayDeck(deck[d], SnapDeck(deck[d]), audio[d], NoRate)]
    /\ audio' = [audio EXCEPT ![d] = TogglePlayAudio(audio[d], SnapDeck(deck[d]))]
    /\ lastOp' = NoOp
    /\ UNCHANGED <<audioContext, crossfader, library, queueA, queueB, isAutoDjEnabled,
                   autoDjActiveDeck, nextAutoDjTrack, pickedFor, autoDjHistory, isTransitioning,
                   autoDjSettings, transitionIntervalRef, transitionTimeoutRef, activeSongIdRef,
                   transitions, liveIntervals, liveTimeouts, enables, nextId, effectPending,
                   userOps, session, desk>>

HandleSetLoop(d, type) ==
    /\ deck' = [deck EXCEPT ![d] = SetLoop(deck[d], deck[d], type)]
    /\ deck' # deck
    /\ lastOp' = [NoOp EXCEPT !.op = "handleSetLoop"]
    /\ UNCHANGED <<audio, audioContext, crossfader, library, queueA, queueB, isAutoDjEnabled,
                   autoDjActiveDeck, nextAutoDjTrack, pickedFor, autoDjHistory, isTransitioning,
                   autoDjSettings, transitionIntervalRef, transitionTimeoutRef, activeSongIdRef,
                   transitions, liveIntervals, liveTimeouts, enables, nextId, effectPending,
                   userOps, session, desk>>

\* one animation frame of updateLoop, elapsed ms after the last one
LoopFrame(elapsed) ==
    LET adv == [d \in DECKS |-> (elapsed * deck[d].playbackRate[1]) \div deck[d].playbackRate[2]]
    IN  /\ \E d \in DECKS : deck[d].isPlaying
        /\ deck' = [d \in DECKS |-> ProcessDeck(deck[d], adv[d])]
        /\ audio' = [d \in DECKS |-> ProcessAudio(audio[d], deck[d], adv[d])]
        /\ lastOp' = [NoOp EXCEPT
                         !.op = "updateLoop",
                         !.t = [d \in DECKS |-> WrapTime(deck[d], adv[d])],
                         !.restarted = {d \in DECKS : /\ WrapTime(deck[d], adv[d]) # -1
                                                      /\ SeekRestarts(SnapDeck(InitDeck), audio[d])}]
        /\ UNCHANGED <<audioContext, crossfader, library, queueA, queueB, isAutoDjEnabled,
                       autoDjActiveDeck, nextAutoDjTrack, pickedFor, autoDjHistory,
                       isTransitioning, autoDjSettings, transitionIntervalRef,
                       transitionTimeoutRef, activeSongIdRef, transitions, liveIntervals,
                       liveTimeouts, enables, nextId, effectPending, userOps, session, desk>>

InitLoop ==
    /\ InitStudio
    /\ InitDesk
    /\ lastOp = NoOp

NextLoop ==
    \/ LoopLoadSong("A")
    \/ LoopTogglePlay("A")
    \/ \E type \in LoopTypes : HandleSetLoop("A", type)
    \/ \E elapsed \in LoopElapsed : LoopFrame(elapsed)

SpecLoop == InitLoop /\ [][NextLoop]_vars

\* -------------------------------------------------------------- metronome
\* ms between a tap and the one before it (performance.now() is monotonic and its
\* resolution is coarse enough for two taps to read the same value)
TapGaps == {0, 100, 500, 2000, 2001}
\* performance.now() at the first tap
FirstTap == 5000
\* tempo the user sets on the metronome panel
PanelBpm == 90

\* a tap window that is never emptied after a pause
TapWindowNoReset(taps, now) ==
    LET pushed == Append(taps, now)
    IN  IF Len(pushed) > 5 THEN Tail(pushed) ELSE pushed

\* handleMetronomeTap: tapTempoTimestamps.current after the tap at now
TapWindow(taps, now) ==
    LET lastTap == IF taps = <<>> THEN 0 ELSE taps[Len(taps)]
        kept == IF lastTap # 0 /\ now - lastTap > 2000 THEN <<>> ELSE taps
        pushed == Append(kept, now)
    IN  IF Len(pushed) > 5 THEN Tail(pushed) ELSE pushed

\* intervals.reduce((a, b) => a + b, 0)
RECURSIVE SumIntervals(_, _)
SumIntervals(taps, i) ==
    IF i > Len(taps) THEN 0 ELSE (taps[i] - taps[i - 1]) + SumIntervals(taps, i + 1)

\* Math.round(a / b) for a >= 0, b > 0
RoundDiv(a, b) == (2 * a + b) \div (2 * b)

\* a tempo taken from the taps without the clamp to [40, 240]
TappedBpmUnclamped(taps, bpm) ==
    IF Len(taps) > 1 /\ SumIntervals(taps, 2) > 0
    THEN RoundDiv(60000 * (Len(taps) - 1), SumIntervals(taps, 2))
    ELSE bpm

\* handleMetronomeTap: the tempo after the tap, from the window it left
\* (averageInterval = sum / intervals.length; nothing is set unless it is positive)
TappedBpm(taps, bpm) ==
    IF Len(taps) > 1
    THEN LET sum == SumIntervals(taps, 2)
             intervals == Len(taps) - 1
         IN  IF sum > 0
             THEN Max(40, Min(240, RoundDiv(60000 * intervals, sum)))
             ELSE bpm
    ELSE bpm

HandleMetronomeTap(gap) ==
    LET now == IF tapTempoTimestamps = <<>> THEN FirstTap
               ELSE tapTempoTimestamps[Len(tapTempoTimestamps)] + gap
    IN  /\ userOps < MaxTaps
        /\ userOps' = userOps + 1
        /\ tapTempoTimestamps' = TapWindow(tapTempoTimestamps, now)
        /\ metronomeBpm' = TappedBpm(tapTempoTimestamps', metronomeBpm)
        /\ lastOp' = [NoOp EXCEPT !.op = "handleMetronomeTap", !.now = now,
                                  !.taps = tapTempoTimestamps, !.bpm = metronomeBpm]
        /\ UNCHANGED <<deck, audio, audioContext, library, queueA, queueB, crossfader,
                       isAutoDjEnabled, autoDjActiveDeck, nextAutoDjTrack, pickedFor,
                       autoDjHistory, isTransitioning, autoDjSettings, transitionIntervalRef,
                       transitionTimeoutRef, activeSongIdRef, transitions, liveIntervals,
                       liveTimeouts, enables, nextId, effectPending, session, midiMapping,
                       reverseMidiMapping, isMidiLearning, midiHandler, midiDirty,
                       mappingEffectDue, faderGain, crossfaderCurve, mixEffectDue, rack, booth>>

\* setMetronomeBpm from the metronome panel
SetMetronomeBpm(bpm) ==
    /\ userOps < MaxTaps
    /\ bpm # metronomeBpm
    /\ userOps' = userOps + 1
    /\ metronomeBpm' = bpm
    /\ lastOp' = NoOp
    /\ UNCHANGED <<deck, audio, audioContext, library, queueA, queueB, crossfader,
                   isAutoDjEnabled, autoDjActiveDeck, nextAutoDjTrack, pickedFor,
                   autoDjHistory, isTransitioning, autoDjSettings, transitionIntervalRef,
                   transitionTimeoutRef, activeSongIdRef, transitions, liveIntervals,
                   liveTimeouts, enables, nextId, effectPending, session, midiMapping,
                   reverseMidiMapping, isMidiLearning, midiHandler, midiDirty,
                   mappingEffectDue, tapTempoTimestamps, faderGain, crossfaderCurve,
                   mixEffectDue, rack, booth>>

InitTap ==
    /\ InitStudio
    /\ InitDesk
    /\ lastOp = NoOp

NextTap ==
    \/ \E gap \in TapGaps : HandleMetronomeTap(gap)
    \/ SetMetronomeBpm(PanelBpm)

SpecTap == InitTap /\ [][NextTap]_vars

\* ----------------------------------------------------------------- loader
\* calls of loadSong in a session
LoadRequests == 3
\* the files the user drops on a deck
LoadFiles == {FILES[1].name, FILES[2].name}
\* how the read and the decode of one call end: onload and decodeAudioData resolve,
\* reader.onerror fires, or decodeAudioData rejects
LoadOutcomes == {"done", "read-error", "decode-error"}

\* everything a load, the beat kit, the audio graph, the FX chain and a platter leave alone
BoothStudio == <<crossfader, queueA, queueB, isAutoDjEnabled, autoDjActiveDeck, nextAutoDjTrack,
                 pickedFor, autoDjHistory, isTransitioning, autoDjSettings,
                 transitionIntervalRef, transitionTimeoutRef, activeSongIdRef, transitions,
                 liveIntervals, liveTimeouts, enables, effectPending, userOps, session,
                 midiMapping, reverseMidiMapping, isMidiLearning, midiHandler, midiDirty,
                 mappingEffectDue, tapTempoTimestamps, metronomeBpm, crossfaderCurve,
                 mixEffectDue>>
RackStudio == <<BoothStudio, booth>>

\* a loadSong whose failure is not noticed
LoadSettledAnyway(before, loaded, outcome) == loaded

\* reader.onload of loadSong: what the try block leaves of a piece of state, and
\* what the catch block and reader.onerror leave of it
LoadSettled(before, loaded, outcome) == IF outcome = "done" THEN loaded ELSE before

\* loadSong up to reader.readAsArrayBuffer(file): the read and the decode are pending
RequestLoad(d, name) ==
    /\ Len(loads["A"]) + Len(loads["B"]) < LoadRequests
    /\ loads' = [loads EXCEPT ![d] = Append(@, [name |-> name, state |-> "decoding"])]
    /\ audioContext' = TRUE
    /\ lastOp' = [NoOp EXCEPT !.op = "loadSong"]
    /\ UNCHANGED <<RackStudio, deck, audio, library, nextId, faderGain, beatKit, audioGraph,
                   fx, scratch>>

\* the read and the decode of the i-th call settle, in any order across the calls:
\* reader.onload sets the library, the deck's audio reference and the deck state
\* without looking at what the deck holds by then
LoadSettle(d, i, outcome) ==
    LET name == loads[d][i].name
    IN  /\ i \in DOMAIN loads[d]
        /\ loads[d][i].state = "decoding"
        /\ loads' = [loads EXCEPT ![d][i].state = outcome]
        /\ deck' = [deck EXCEPT ![d] = LoadSettled(@, LoadedDeck(@, nextId, name), outcome)]
        /\ audio' = [audio EXCEPT ![d] = LoadSettled(@, LoadedAudio(@, name), outcome)]
        /\ library' = LoadSettled(library, LoadedLibrary(library, nextId, name), outcome)
        /\ faderGain' = [faderGain EXCEPT ![d] = LoadSettled(@, -1, outcome)]
        /\ scratch' = [scratch EXCEPT ![d] =
                           LoadSettled(@, [@ EXCEPT !.wasPlayingBeforeScratch = FALSE], outcome)]
        /\ nextId' = LoadSettled(nextId, nextId + 1, outcome)
        /\ lastOp' = [NoOp EXCEPT !.op = "loadSettle"]
        /\ UNCHANGED <<RackStudio, audioContext, beatKit, audioGraph, fx>>

InitLoad ==
    /\ InitStudio
    /\ InitDesk
    /\ lastOp = NoOp

NextLoad ==
    \/ \E d \in DECKS : \E name \in LoadFiles : RequestLoad(d, name)
    \/ \E d \in DECKS : \E i \in 1..LoadRequests : \E outcome \in LoadOutcomes :
           LoadSettle(d, i, outcome)
    \/ \E d \in DECKS : MixTogglePlay(d)

SpecLoad == InitLoad /\ [][NextLoad]_vars

\* ------------------------------------------------------------ audio graph
\* calls of initAudioContext in a session
MaxGraphCalls == 5
\* the operations that call initAudioContext
GraphCallers == {"metronome", "loadSong", "loadBeat", "playBeat", "togglePlay", "toggleMic",
                 "playSample", "playDrumSample"}
\* the refs initAudioContext sets for the operations that depend on the graph
GraphPoints == {"masterGain", "cueBusGain", "analyser", "fxChainEntry", "fxNodes", "bassEqNode",
                "preFaderTap", "transitionNodes", "metronomeGain", "micGain", "samplerGain",
                "scratchNoiseGain"}
\* AudioContext.state of a new context: the autoplay policy decides
ContextStates == {"suspended", "running"}

\* an initAudioContext that builds on every call
BuildAlways(g) == TRUE

\* if (!audioContextRef.current)
BuildNeeded(g) == g.contexts = 0

\* the try block: new AudioContext() throws on a platform without Web Audio and
\* nothing is set; otherwise the context and every node are created
GraphBuilt(g, supported, initial) ==
    IF BuildNeeded(g) /\ supported
    THEN [g EXCEPT !.contexts = @ + 1, !.builds = @ + 1, !.state = initial, !.points = GraphPoints]
    ELSE g

\* if (audioContextRef.current?.state === 'suspended') audioContextRef.current.resume()
GraphResumed(g) == IF g.state = "suspended" THEN [g EXCEPT !.state = "running"] ELSE g

initAudioContext(g, supported, initial) ==
    [GraphResumed(GraphBuilt(g, supported, initial)) EXCEPT !.calls = @ + 1]

\* the connection initAudioContext makes between new nodes: FX entry -> sweep EQ
DirectChain == {[from |-> "fxChainEntry", to |-> "bassEqNode"]}

\* an operation calls initAudioContext
GraphCall(caller, supported, initial) ==
    /\ audioGraph.calls < MaxGraphCalls
    /\ audioGraph' = initAudioContext(audioGraph, supported, initial)
    /\ audioContext' = (audioGraph'.contexts > 0)
    /\ fx' = IF audioGraph'.builds > audioGraph.builds THEN [fx EXCEPT !.edges = DirectChain]
             ELSE fx
    /\ lastOp' = [NoOp EXCEPT !.op = "initAudioContext", !.caller = caller, !.graph = audioGraph]
    /\ UNCHANGED <<RackStudio, deck, audio, library, nextId, faderGain, loads, beatKit, scratch>>

\* the platform suspends the audio clock (interruption, autoplay policy)
ContextSuspended ==
    /\ audioGraph.state = "running"
    /\ audioGraph' = [audioGraph EXCEPT !.state = "suspended"]
    /\ lastOp' = NoOp
    /\ UNCHANGED <<RackStudio, deck, audio, audioContext, library, nextId, faderGain, loads,
                   beatKit, fx, scratch>>

InitGraph ==
    /\ InitStudio
    /\ InitDesk
    /\ lastOp = NoOp

NextGraph ==
    \/ \E caller \in GraphCallers : \E supported \in BOOLEAN : \E initial \in ContextStates :
           GraphCall(caller, supported, initial)
    \/ ContextSuspended

SpecGraph == InitGraph /\ [][NextGraph]_vars

\* --------------------------------------------------------------- FX chain
FX_LIST == <<"Low-Pass", "High-Pass", "Band-Pass", "Delay", "Reverb", "Flanger", "Phaser",
             "Chorus", "Distortion">>
\* the units the user toggles
FxUnits == {"Low-Pass", "Delay", "Reverb"}

\* the connections of a chain: FX entry -> the units in the given order -> sweep EQ;
\* a unit stands for its input as a target and for its output as a source
ChainEdges(chain) ==
    IF chain = <<>> THEN DirectChain
    ELSE {[from |-> "fxChainEntry", to |-> chain[1]]}
           \cup {[from |-> chain[i], to |-> chain[i + 1]] : i \in 1..(Len(chain) - 1)}
           \cup {[from |-> chain[Len(chain)], to |-> "bassEqNode"]}

\* a reconnect that removes every connection of the previous chain
RechainClean(edges, active) == ChainEdges(SelectSeq(FX_LIST, LAMBDA fxType : fxType \in active))

\* the FX reconnect effect with the graph built: fxChainEntry.disconnect() removes the
\* connections leaving the entry, those leaving a unit's output stay; then the
\* active units are connected in the order of FX_LIST
Rechain(edges, active) ==
    {e \in edges : e.from # "fxChainEntry"}
        \cup ChainEdges(SelectSeq(FX_LIST, LAMBDA fxType : fxType \in active))

\* setActiveEffects(prev => toggled set): the FX panel and the fx_toggle_ MIDI controls
ToggleEffect(fxType) ==
    /\ ~fx.due
    /\ fx' = [fx EXCEPT !.activeEffects = IF fxType \in @ THEN @ \ {fxType} ELSE @ \cup {fxType},
                        !.due = TRUE]
    /\ lastOp' = [NoOp EXCEPT !.op = "setActiveEffects"]
    /\ UNCHANGED <<RackStudio, deck, audio, audioContext, library, nextId, faderGain, loads,
                   beatKit, audioGraph, scratch>>

\* useEffect(..., [activeEffects]): returns at once while the entry or the EQ is not built
FxEffect ==
    /\ fx.due
    /\ fx' = [fx EXCEPT !.due = FALSE,
                        !.edges = IF {"fxChainEntry", "bassEqNode"} \subseteq audioGraph.points
                                  THEN Rechain(@, fx.activeEffects) ELSE @]
    /\ lastOp' = [NoOp EXCEPT !.op = "fxEffect"]
    /\ UNCHANGED <<RackStudio, deck, audio, audioContext, library, nextId, faderGain, loads,
                   beatKit, audioGraph, scratch>>

NextFx ==
    \/ \E fxType \in FxUnits : ToggleEffect(fxType)
    \/ FxEffect
    \/ \E caller \in {"togglePlay", "playSample"} : ~fx.due /\ GraphCall(caller, TRUE, "running")

SpecFx == InitGraph /\ [][NextFx]_vars

\* the nodes audio reaches from the FX entry when it follows at most k connections
RECURSIVE ReachedFrom(_, _, _)
ReachedFrom(edges, nodes, k) ==
    IF k = 0 THEN nodes
    ELSE ReachedFrom(edges, nodes \cup {e.to : e \in {x \in edges : x.from \in nodes}}, k - 1)

\* the connections audio from the FX entry passes through
Spliced(edges) == {e \in edges : e.from \in ReachedFrom(edges, {"fxChainEntry"}, Len(FX_LIST) + 1)}

\* ---------------------------------------------------------------- scratch
\* loads of a track in a scratch session
ScratchLoads == 1
\* data.movementX of a drag event, in pixels
PlatterMoves == {-400, 200}

\* handlePlatterInteraction 'start' on a deck in scratch mode with a track: it
\* records d.isPlaying, which an earlier start of the same gesture has set to false
PlatterStarted(sc, dk) ==
    [sc EXCEPT !.wasPlayingBeforeScratch = dk.isPlaying, !.noise = 500]

\* toggleScratchMode
ToggleScratchMode(d) ==
    /\ scratch[d].gesture # "held" /\ scratch[d].resume = -1
    /\ scratch' = [scratch EXCEPT ![d].scratchModeEnabled = ~@, ![d].gesture = "none"]
    /\ lastOp' = [NoOp EXCEPT !.op = "toggleScratchMode", !.caller = d]
    /\ UNCHANGED <<RackStudio, deck, audio, audioContext, library, nextId, faderGain, loads,
                   beatKit, audioGraph, fx>>

\* loadSong, read and decoded at once: the deck keeps scratchModeEnabled
ScratchLoadSong(d, name) ==
    /\ scratch[d].gesture # "held" /\ scratch[d].resume = -1
    /\ nextId <= ScratchLoads
    /\ nextId' = nextId + 1
    /\ audioContext' = TRUE
    /\ deck' = [deck EXCEPT ![d] = LoadedDeck(@, nextId, name)]
    /\ audio' = [audio EXCEPT ![d] = LoadedAudio(@, name)]
    /\ library' = LoadedLibrary(library, nextId, name)
    /\ faderGain' = [faderGain EXCEPT ![d] = -1]
    /\ scratch' = [scratch EXCEPT ![d].wasPlayingBeforeScratch = FALSE, ![d].gesture = "none"]
    /\ lastOp' = [NoOp EXCEPT !.op = "loadSong", !.caller = d]
    /\ UNCHANGED <<RackStudio, loads, beatKit, audioGraph, fx>>

\* the play button, between gestures
ScratchTogglePlay(d) ==
    /\ scratch[d].gesture # "held" /\ scratch[d].resume = -1
    /\ deck[d].song # NoSong
    /\ deck' = [deck EXCEPT ![d] = TogglePlayDeck(@, SnapDeck(@), audio[d], NoRate)]
    /\ audio' = [audio EXCEPT ![d] = TogglePlayAudio(@, SnapDeck(deck[d]))]
    /\ faderGain' = [faderGain EXCEPT ![d] = IF ~deck[d].isPlaying /\ audio[d].buffer # <<>>
                                              THEN DefaultGain ELSE @]
    /\ scratch' = [scratch EXCEPT ![d].gesture = "none"]
    /\ lastOp' = [NoOp EXCEPT !.op = "togglePlay", !.caller = d]
    /\ UNCHANGED <<RackStudio, audioContext, library, nextId, loads, beatKit, audioGraph, fx>>

\* handlePlatterInteraction(deckId, 'start'): the platter is pressed, or pressed again
\* while held; without a context, scratch mode or a track nothing happens
PlatterStart(d) ==
    /\ scratch[d].resume = -1
    /\ IF audioContext /\ scratch[d].scratchModeEnabled /\ deck[d].song # NoSong
       THEN /\ deck' = [deck EXCEPT ![d].isPlaying = FALSE]
            /\ audio' = [audio EXCEPT ![d].source =
                             IF deck[d].isPlaying /\ @ = "live" THEN "stopped" ELSE @]
            /\ scratch' = [scratch EXCEPT ![d] =
                   [PlatterStarted(@, deck[d]) EXCEPT
                        !.gesture = "held",
                        !.began = IF scratch[d].gesture = "held" THEN @ ELSE deck[d].isPlaying,
                        !.position = -1]]
       ELSE UNCHANGED <<deck, audio, scratch>>
    /\ lastOp' = [NoOp EXCEPT !.op = "platterStart", !.caller = d]
    /\ UNCHANGED <<RackStudio, audioContext, library, nextId, faderGain, loads, beatKit,
                   audioGraph, fx>>

\* handlePlatterInteraction(deckId, 'drag', { movementX }): 5 ms of track per pixel,
\* the noise gain follows the velocity
PlatterDrag(d, movementX) ==
    /\ scratch[d].gesture = "held"
    /\ deck' = [deck EXCEPT ![d].currentTime = Max(0, Min(deck[d].duration, @ + movementX * 5))]
    /\ scratch' = [scratch EXCEPT ![d].noise = Min(600, 100 + Abs(movementX) * 50)]
    /\ lastOp' = [NoOp EXCEPT !.op = "platterDrag", !.caller = d]
    /\ UNCHANGED <<RackStudio, audio, audioContext, library, nextId, faderGain, loads, beatKit,
                   audioGraph, fx>>

\* handlePlatterInteraction(deckId, 'end'): the noise is ramped to 0 and, if
\* wasPlayingBeforeScratch, togglePlay is deferred with setTimeout(..., 0)
PlatterEnd(d) ==
    /\ scratch[d].gesture = "held"
    /\ scratch' = [scratch EXCEPT ![d].noise = 0, ![d].wasPlayingBeforeScratch = FALSE,
                                  ![d].resume = IF scratch[d].wasPlayingBeforeScratch
                                                THEN deck[d].currentTime ELSE -1,
                                  ![d].gesture = "ended", ![d].position = deck[d].currentTime]
    /\ lastOp' = [NoOp EXCEPT !.op = "platterEnd", !.caller = d]
    /\ UNCHANGED <<RackStudio, deck, audio, audioContext, library, nextId, faderGain, loads,
                   beatKit, audioGraph, fx>>

\* the deferred togglePlay(deckId, { forceStartTime, playbackRate }) of the end event
ScratchResume(d) ==
    /\ scratch[d].resume # -1
    /\ deck' = [deck EXCEPT ![d] = TogglePlayDeck(@, SnapDeck(@), audio[d], deck[d].playbackRate)]
    /\ audio' = [audio EXCEPT ![d] = TogglePlayAudio(@, SnapDeck(deck[d]))]
    /\ faderGain' = [faderGain EXCEPT ![d] = IF ~deck[d].isPlaying /\ audio[d].buffer # <<>>
                                              THEN DefaultGain ELSE @]
    /\ scratch' = [scratch EXCEPT ![d].resume = -1]
    /\ lastOp' = [NoOp EXCEPT !.op = "scratchResume", !.caller = d]
    /\ UNCHANGED <<RackStudio, audioContext, library, nextId, loads, beatKit, audioGraph, fx>>

NextScratch ==
    \/ ToggleScratchMode("A")
    \/ ScratchLoadSong("A", FILES[1].name)
    \/ ScratchTogglePlay("A")
    \/ PlatterStart("A")
    \/ \E movementX \in PlatterMoves : PlatterDrag("A", movementX)
    \/ PlatterEnd("A")
    \/ ScratchResume("A")

SpecScratch == InitGraph /\ [][NextScratch]_vars

\* --------------------------------------------------------------- beat kit
\* the pads the user loads: category and slot (slot i is index i - 1 of the array)
BeatPads == {<<"drum", 1>>, <<"drum", 12>>, <<"instrumental", 3>>}
\* the files the user drops on a pad
BeatFiles == {"kick", "snare"}

\* the Beat loadBeat makes of a decoded file
DecodedBeat(name) ==
    [id |-> IF name = "kick" THEN 1 ELSE 2, name |-> name, file |-> name, audioBuffer |-> name,
     arrayBuffer |-> name]

\* const { file, audioBuffer, ...storableBeat } = beat
Storable(beat) == [f \in DOMAIN beat \ {"file", "audioBuffer"} |-> beat[f]]

\* the items saveBeatsToDB adds: one per populated slot
BeatItems(beats) ==
    {[id |-> <<category, index>>, category |-> category, index |-> index,
      beat |-> Storable(beats[category][index + 1])] :
        <<category, index>> \in {ci \in (DOMAIN beats) \X (0..(PadCount - 1)) :
                                     beats[ci[1]][ci[2] + 1] # NoBeat}}

\* a save that does not clear the store: an item stays unless its id is added again
SavedNoClear(store, beats) ==
    {item \in store : \A new \in BeatItems(beats) : new.id # item.id} \cup BeatItems(beats)

\* saveBeatsToDB: store.clear(), then store.add for every populated slot
Saved(store, beats) == BeatItems(beats)

\* loadBeatsFromDB: getAll() into three arrays of 12 nulls; when the store cannot be
\* opened or read, the three empty arrays
Loaded(store, readable) ==
    IF ~readable THEN EmptyKit
    ELSE [category \in Range(BEAT_CATEGORIES) |->
             [slot \in 1..PadCount |->
                 IF \E item \in store : item.category = category /\ item.index = slot - 1
                 THEN (CHOOSE item \in store :
                           item.category = category /\ item.index = slot - 1).beat
                 ELSE NoBeat]]

\* loadBeat: setBeats with the decoded beat on the pad
SetBeat(category, slot, name) ==
    /\ beatKit' = [beatKit EXCEPT !.beats[category][slot] = DecodedBeat(name)]
    /\ lastOp' = [NoOp EXCEPT !.op = "loadBeat"]
    /\ UNCHANGED <<RackStudio, deck, audio, audioContext, library, nextId, faderGain, loads,
                   audioGraph, fx, scratch>>

\* handleRemoveBeat
RemoveBeat(category, slot) ==
    /\ beatKit.beats[category][slot] # NoBeat
    /\ beatKit' = [beatKit EXCEPT !.beats[category][slot] = NoBeat]
    /\ lastOp' = [NoOp EXCEPT !.op = "removeBeat"]
    /\ UNCHANGED <<RackStudio, deck, audio, audioContext, library, nextId, faderGain, loads,
                   audioGraph, fx, scratch>>

\* handleSaveBeats: saveBeatsToDB(beats)
SaveBeats ==
    /\ beatKit' = [beatKit EXCEPT !.store = Saved(@, beatKit.beats), !.saved = beatKit.beats]
    /\ lastOp' = [NoOp EXCEPT !.op = "saveBeatsToDB"]
    /\ UNCHANGED <<RackStudio, deck, audio, audioContext, library, nextId, faderGain, loads,
                   audioGraph, fx, scratch>>

\* the page is opened again: loadBeatsFromDB, then setBeats(savedBeats)
LoadBeats(readable) ==
    /\ beatKit' = [beatKit EXCEPT !.loaded = Loaded(beatKit.store, readable),
                                  !.beats = Loaded(beatKit.store, readable),
                                  !.readable = readable]
    /\ lastOp' = [NoOp EXCEPT !.op = "loadBeatsFromDB"]
    /\ UNCHANGED <<RackStudio, deck, audio, audioContext, library, nextId, faderGain, loads,
                   audioGraph, fx, scratch>>

NextBeats ==
    \/ \E pad \in BeatPads : \E name \in BeatFiles : SetBeat(pad[1], pad[2], name)
    \/ \E pad \in BeatPads : RemoveBeat(pad[1], pad[2])
    \/ SaveBeats
    \/ \E readable \in BOOLEAN : LoadBeats(readable)

SpecBeats == InitGraph /\ [][NextBeats]_vars

\* ------------------------------------------------------------- deck panel
\* loads of a track in a panel session
PanelLoads == 3
\* the values the user gives the knobs of a deck, and the zoom of its waveform
PanelVolumes == {500}
PanelGains == {80}
PanelZooms == {1, 4}
\* the cue pads (cueIndex)
CuePads == 0..2

\* handleZoomChange(deckId, newZoom) with no pointer: zoom about the centre of the view
ZoomChanged(dk, newZoom) ==
    LET clampedZoom == Max(1, Min(newZoom, 64))
        centerPointRatio == dk.viewStartRatio + (1000 \div dk.zoom) \div 2
    IN  IF clampedZoom = dk.zoom THEN dk
        ELSE [dk EXCEPT !.zoom = clampedZoom,
                        !.viewStartRatio = Max(0, Min(centerPointRatio - (1000 \div clampedZoom) \div 2,
                                                      1000 - 1000 \div clampedZoom))]

\* cuePoints[cueIndex], NoCue where the array has no such element
CueAt(cuePoints, cueIndex) ==
    IF cueIndex + 1 \in DOMAIN cuePoints THEN cuePoints[cueIndex + 1] ELSE NoCue

\* newCues[cueIndex] = currentTime: the array grows to cueIndex + 1 with empty slots
CueSet(cuePoints, cueIndex, currentTime) ==
    [k \in 1..Max(Len(cuePoints), cueIndex + 1) |->
        IF k = cueIndex + 1 THEN currentTime ELSE CueAt(cuePoints, k - 1)]

\* while (newCues.length > 0 && newCues[newCues.length - 1] === undefined) newCues.pop()
RECURSIVE CueTrimmed(_)
CueTrimmed(cuePoints) ==
    IF cuePoints # <<>> /\ cuePoints[Len(cuePoints)] = NoCue
    THEN CueTrimmed(SubSeq(cuePoints, 1, Len(cuePoints) - 1))
    ELSE cuePoints

\* a delete that leaves the emptied slot in the array
CueDeletedNoTrim(cuePoints, cueIndex) ==
    IF CueAt(cuePoints, cueIndex) # NoCue THEN [cuePoints EXCEPT ![cueIndex + 1] = NoCue]
    ELSE cuePoints

\* case 'delete': the slot is emptied and the trailing empty slots are popped
CueDeleted(cuePoints, cueIndex) ==
    IF CueAt(cuePoints, cueIndex) # NoCue
    THEN CueTrimmed([cuePoints EXCEPT ![cueIndex + 1] = NoCue])
    ELSE cuePoints

\* loadSong on a deck, read and decoded at once
PanelLoadSong(d, name) ==
    /\ scratch[d].gesture # "held" /\ scratch[d].resume = -1
    /\ nextId <= PanelLoads
    /\ nextId' = nextId + 1
    /\ audioContext' = TRUE
    /\ deck' = [deck EXCEPT ![d] = LoadedDeck(@, nextId, name)]
    /\ audio' = [audio EXCEPT ![d] = LoadedAudio(@, name)]
    /\ library' = LoadedLibrary(library, nextId, name)
    /\ faderGain' = [faderGain EXCEPT ![d] = -1]
    /\ scratch' = [scratch EXCEPT ![d].wasPlayingBeforeScratch = FALSE]
    /\ lastOp' = [NoOp EXCEPT !.op = "loadSong", !.caller = d, !.decks = deck,
                              !.scratchMode = scratch[d].scratchModeEnabled]
    /\ UNCHANGED <<RackStudio, loads, beatKit, audioGraph, fx>>

\* a handler that only sets the deck state: setDeckAVolume, setDeckAGain,
\* toggleKeyLock, handleZoomChange, handlePitchChange, handleSetLoop
PanelSet(d, newDeck, op) ==
    /\ newDeck # deck[d]
    /\ deck' = [deck EXCEPT ![d] = newDeck]
    /\ lastOp' = [NoOp EXCEPT !.op = op, !.caller = d]
    /\ UNCHANGED <<RackStudio, audio, audioContext, library, nextId, faderGain, rack>>

\* handleCueAction(deckId, type, cueIndex): without a track it returns; a jump to a
\* slot that holds a position is seekDeck(deckId, cueTime)
HandleCueAction(d, type, cueIndex) ==
    LET cueTime == CueAt(deck[d].cuePoints, cueIndex)
        jumps == type = "jump" /\ cueTime # NoCue
    IN  /\ deck[d].song # NoSong
        /\ deck' = [deck EXCEPT ![d] =
               CASE type = "set" -> [@ EXCEPT !.cuePoints = CueSet(@, cueIndex, deck[d].currentTime)]
                 [] type = "delete" -> [@ EXCEPT !.cuePoints = CueDeleted(@, cueIndex)]
                 [] OTHER -> IF jumps THEN SeekDeckState(@, SnapDeck(@), cueTime) ELSE @]
        /\ audio' = [audio EXCEPT ![d] = IF jumps /\ SeekRestarts(SnapDeck(deck[d]), @)
                                          THEN [@ EXCEPT !.source = "live"] ELSE @]
        /\ faderGain' = [faderGain EXCEPT ![d] =
                             IF jumps /\ SeekRestarts(SnapDeck(deck[d]), audio[d])
                             THEN DefaultGain ELSE @]
        /\ lastOp' = [NoOp EXCEPT !.op = "handleCueAction", !.caller = type, !.from = d,
                                  !.tr = cueIndex, !.decks = deck]
        /\ UNCHANGED <<RackStudio, audioContext, library, nextId, rack>>

NextPanel ==
    \/ \E d \in DECKS : PanelLoadSong(d, FILES[1].name)
    \/ \E volume \in PanelVolumes :
           PanelSet("A", [deck["A"] EXCEPT !.volume = volume], "setDeckVolume")
    \/ \E gain \in PanelGains : PanelSet("A", [deck["A"] EXCEPT !.gain = gain], "setDeckGain")
    \/ PanelSet("A", [deck["A"] EXCEPT !.keyLock = ~@], "toggleKeyLock")
    \/ \E newZoom \in PanelZooms : PanelSet("A", ZoomChanged(deck["A"], newZoom), "handleZoomChange")
    \/ \E newRate \in PitchChoices : PanelSet("A", PitchChanged(deck["A"], newRate), "handlePitchChange")
    \/ PanelSet("A", SetLoop(deck["A"], deck["A"], [kind |-> "in", beats |-> 0]), "handleSetLoop")
    \/ ToggleScratchMode("A")
    \/ MixTogglePlay("A")
    \/ MixSeek("A", 10000)
    \/ HandleCueAction("A", "set", 0)

SpecPanel == InitGraph /\ [][NextPanel]_vars

\* the cue pads of one deck
NextCue ==
    \/ PanelLoadSong("A", FILES[1].name)
    \/ MixTogglePlay("A")
    \/ \E newTime \in SeekStops : MixSeek("A", newTime)
    \/ \E type \in {"set", "jump", "delete"} : \E cueIndex \in CuePads :
           HandleCueAction("A", type, cueIndex)

SpecCue == InitGraph /\ [][NextCue]_vars

\* -------------------------------------------------------------- transport
\* seconds a frame of updateLoop finds elapsed, in ms
TransportElapsed == {10000}
\* the times the user seeks to, before the start and past the end included
TransportSeeks == {-5000, 20000, 40000}
\* data.movementX of a drag on the platter, in pixels (5 ms of track each)
TransportMoves == {-4000, 2000}

\* a frame of updateLoop on both decks; the frame keeps what it found
TransportFrame(elapsed) ==
    LET adv == [d \in DECKS |-> (elapsed * deck[d].playbackRate[1]) \div deck[d].playbackRate[2]]
    IN  /\ \E d \in DECKS : deck[d].isPlaying
        /\ deck' = [d \in DECKS |-> ProcessDeck(deck[d], adv[d])]
        /\ audio' = [d \in DECKS |-> ProcessAudio(audio[d], deck[d], adv[d])]
        /\ lastOp' = [NoOp EXCEPT !.op = "updateLoop", !.decks = deck,
                                  !.t = [d \in DECKS |-> WrapTime(deck[d], adv[d])],
                                  !.now = elapsed]
        /\ UNCHANGED <<RackStudio, audioContext, library, nextId, faderGain, rack>>

NextTransport ==
    \/ deck["A"].song = NoSong /\ PanelLoadSong("A", FILES[1].name)
    \/ MixTogglePlay("A")
    \/ \E newTime \in TransportSeeks : MixSeek("A", newTime)
    \/ \E type \in {"set", "jump"} : HandleCueAction("A", type, 0)
    \/ \E type \in LoopTypes : HandleSetLoop("A", type)
    \/ \E elapsed \in TransportElapsed : TransportFrame(elapsed)
    \/ ToggleScratchMode("A")
    \/ PlatterStart("A")
    \/ \E movementX \in TransportMoves : PlatterDrag("A", movementX)
    \/ PlatterEnd("A")
    \/ ScratchResume("A")

SpecTransport == InitGraph /\ [][NextTransport]_vars

\* ------------------------------------------------------- metronome scheduler
\* scheduleAheadTime and the delay of the scheduler's own timeout, ms
ScheduleAheadTime == 100
SchedulerDelay == 25
\* the audio clock stops here, ms
MetroEnd == 600
\* gestures on the metronome panel in a session
MetroGestures == 3
\* ms of audio clock between two callbacks (a timer may be late)
MetroSteps == {25, 300}
\* what the panel sets: tempo (dividing 60000 ms), numerator, sound
MetroTempos == {240}
MetroBeats == {2}
MetroSounds == {"woodblock"}

\* the dependency array of the metronome effect, as the current render has it
MetroDeps == [isMetronomeEnabled |-> metro.isMetronomeEnabled, metronomeBpm |-> metronomeBpm,
              beats |-> metro.beats, metronomeSound |-> metro.metronomeSound]

\* a dependency was set and the effect has not run for it yet
MetroDue == metro.ran # MetroDeps

\* the while loop of scheduler, closed over the dependencies deps: every main beat due
\* within the look-ahead is scheduled at nextNoteTime, its display is deferred by
\* visualDelay (a negative delay fires at once), the refs advance
RECURSIVE Scheduled(_, _)
Scheduled(m, deps) ==
    IF m.nextNoteTime < m.clock + ScheduleAheadTime
    THEN LET beatInMeasure == m.currentBeatInMeasure % deps.beats
             isDownbeat == beatInMeasure = 0
         IN  Scheduled([m EXCEPT !.clicks = Append(@, [time |-> m.nextNoteTime,
                                                        beatInMeasure |-> beatInMeasure,
                                                        isDownbeat |-> isDownbeat]),
                                 !.visual = Append(@, [at |-> Max(m.clock, m.nextNoteTime),
                                                       beat |-> beatInMeasure + 1]),
                                 !.nextNoteTime = @ + 60000 \div deps.metronomeBpm,
                                 !.currentBeatInMeasure = @ + 1], deps)
    ELSE m

\* scheduler(): the loop, then metronomeTimerId.current = setTimeout(scheduler, 25)
scheduler(m, deps) ==
    [Scheduled(m, deps) EXCEPT !.timer = m.clock + SchedulerDelay, !.timerId = TRUE]

\* the cleanup of the previous run of the effect: clearTimeout(metronomeTimerId.current)
MetroCleaned(m) == [m EXCEPT !.timer = -1]

\* the body of the effect with the context present: enabled, the refs restart 0.1 s
\* ahead at beat 0 and the scheduler runs; disabled, the timer id is dropped and
\* setMetronomeBeat(0). The beats scheduled and shown are counted from the run that
\* first had this tempo and numerator.
MetroRan(m, deps, hasContext) ==
    LET fresh == \/ ~m.ran.isMetronomeEnabled
                 \/ m.ran.metronomeBpm # deps.metronomeBpm
                 \/ m.ran.beats # deps.beats
        cleaned == [MetroCleaned(m) EXCEPT !.ran = deps]
    IN  IF deps.isMetronomeEnabled
        THEN IF hasContext
             THEN scheduler([cleaned EXCEPT !.nextNoteTime = m.clock + ScheduleAheadTime,
                                            !.currentBeatInMeasure = 0,
                                            !.clicks = IF fresh THEN <<>> ELSE @,
                                            !.shown = IF fresh THEN <<>> ELSE @], deps)
             ELSE cleaned
        ELSE [cleaned EXCEPT !.timerId = FALSE, !.metronomeBeat = 0]

\* the effect on [isMetronomeEnabled, metronomeBpm, metronomeTimeSignature,
\* metronomeSubdivision, metronomeSound], flushed after the render that changed one
MetroEffect(supported, initial) ==
    /\ MetroDue
    /\ audioGraph' = IF metro.isMetronomeEnabled
                     THEN initAudioContext(audioGraph, supported, initial)
                     ELSE audioGraph
    /\ audioContext' = (audioGraph'.contexts > 0)
    /\ fx' = IF audioGraph'.builds > audioGraph.builds THEN [fx EXCEPT !.edges = DirectChain]
             ELSE fx
    /\ metro' = MetroRan(metro, MetroDeps, audioGraph'.contexts > 0)
    /\ lastOp' = [NoOp EXCEPT !.op = "metronomeEffect"]
    /\ UNCHANGED <<BoothStudio, deck, audio, library, nextId, faderGain, loads, beatKit,
                   scratch, mic>>

\* a gesture on the metronome panel sets one of the settings
MetroSet(m) ==
    /\ ~MetroDue
    /\ metro.gestures < MetroGestures
    /\ metro' = [m EXCEPT !.gestures = @ + 1]
    /\ lastOp' = NoOp
    /\ UNCHANGED <<BoothStudio, deck, audio, audioContext, library, nextId, faderGain, rack,
                   mic>>

\* onToggleMetronome: setIsMetronomeEnabled(!isMetronomeEnabled)
ToggleMetronome == MetroSet([metro EXCEPT !.isMetronomeEnabled = ~@])

SetMetronomeTimeSignature(beats) ==
    /\ beats # metro.beats
    /\ MetroSet([metro EXCEPT !.beats = beats])

SetMetronomeSound(sound) ==
    /\ sound # metro.metronomeSound
    /\ MetroSet([metro EXCEPT !.metronomeSound = sound])

\* the scheduler's timeout fires
MetroTimer ==
    /\ ~MetroDue
    /\ metro.timer # -1
    /\ metro.timer <= metro.clock
    /\ metro' = scheduler(metro, metro.ran)
    /\ lastOp' = [NoOp EXCEPT !.op = "scheduler"]
    /\ UNCHANGED <<BoothStudio, deck, audio, audioContext, library, nextId, faderGain, rack,
                   mic>>

\* a deferred display update fires: setMetronomeBeat(beatInMeasure + 1)
MetroVisual ==
    /\ ~MetroDue
    /\ metro.visual # <<>>
    /\ Head(metro.visual).at <= metro.clock
    /\ metro' = [metro EXCEPT !.visual = Tail(@),
                              !.metronomeBeat = Head(metro.visual).beat,
                              !.shown = IF metro.isMetronomeEnabled
                                        THEN Append(@, Head(metro.visual).beat)
                                        ELSE @]
    /\ lastOp' = [NoOp EXCEPT !.op = "setMetronomeBeat"]
    /\ UNCHANGED <<BoothStudio, deck, audio, audioContext, library, nextId, faderGain, rack,
                   mic>>

\* the audio clock runs on to the next callback; a timeout that is due fires first
MetroClock(elapsed) ==
    /\ ~MetroDue
    /\ metro.clock + elapsed <= MetroEnd
    /\ metro.timer = -1 \/ metro.timer > metro.clock
    /\ \A i \in 1..Len(metro.visual) : metro.visual[i].at > metro.clock
    /\ metro' = [metro EXCEPT !.clock = @ + elapsed]
    /\ lastOp' = NoOp
    /\ UNCHANGED <<BoothStudio, deck, audio, audioContext, library, nextId, faderGain, rack,
                   mic>>

NextMetro ==
    \/ ToggleMetronome
    \/ \E beats \in MetroBeats : SetMetronomeTimeSignature(beats)
    \/ \E sound \in MetroSounds : SetMetronomeSound(sound)
    \/ \E bpm \in MetroTempos : ~MetroDue /\ SetMetronomeBpm(bpm)
    \/ \E initial \in ContextStates : MetroEffect(TRUE, initial)
    \/ MetroTimer
    \/ MetroVisual
    \/ \E elapsed \in MetroSteps : MetroClock(elapsed)

SpecMetro == InitGraph /\ [][NextMetro]_vars

\* ------------------------------------------------------------- microphone
\* calls of toggleMic in a session
MicRequests == 4

\* the else branch of toggleMic: the stream's tracks are stopped, the source node is
\* disconnected, both refs are cleared, setIsMicEnabled(false)
MicReleased(m) ==
    [m EXCEPT !.held = IF m.stream # 0 THEN @ \ {m.stream} ELSE @,
              !.stream = 0,
              !.sources = IF m.source # 0 THEN @ \ {m.source} ELSE @,
              !.source = 0,
              !.isMicEnabled = FALSE]

\* toggleMic up to its await: initAudioContext, then either the release or, with no
\* stream in micStreamRef, a getUserMedia request that stays in flight
ToggleMic(enable, supported, initial) ==
    /\ mic.requests < MicRequests
    /\ audioGraph' = initAudioContext(audioGraph, supported, initial)
    /\ audioContext' = (audioGraph'.contexts > 0)
    /\ fx' = IF audioGraph'.builds > audioGraph.builds THEN [fx EXCEPT !.edges = DirectChain]
             ELSE fx
    /\ LET asked == [mic EXCEPT !.requests = @ + 1,
                                !.latest = IF enable THEN "enable" ELSE "disable"]
       IN  mic' = IF enable
                  THEN IF mic.stream # 0 THEN asked
                       ELSE [asked EXCEPT !.pending = @ \cup {asked.requests}]
                  ELSE MicReleased(asked)
    /\ lastOp' = [NoOp EXCEPT !.op = "toggleMic"]
    /\ UNCHANGED <<BoothStudio, deck, audio, library, nextId, faderGain, loads, beatKit,
                   scratch, metro>>

\* getUserMedia resolves for request r: the stream goes to micStreamRef; with a
\* context the source node is created, connected and setIsMicEnabled(true), without
\* one createMediaStreamSource throws on null and the catch ends the call
MicGranted(r) ==
    /\ r \in mic.pending
    /\ mic' = IF audioGraph.contexts > 0
              THEN [mic EXCEPT !.pending = @ \ {r}, !.held = @ \cup {r}, !.stream = r,
                               !.source = r, !.sources = @ \cup {r}, !.isMicEnabled = TRUE]
              ELSE [mic EXCEPT !.pending = @ \ {r}, !.held = @ \cup {r}, !.stream = r]
    /\ lastOp' = [NoOp EXCEPT !.op = "micGranted"]
    /\ UNCHANGED <<BoothStudio, deck, audio, audioContext, library, nextId, faderGain, rack,
                   metro>>

\* getUserMedia rejects for request r (denied, no device): the catch logs it
MicDenied(r) ==
    /\ r \in mic.pending
    /\ mic' = [mic EXCEPT !.pending = @ \ {r}]
    /\ lastOp' = [NoOp EXCEPT !.op = "micDenied"]
    /\ UNCHANGED <<BoothStudio, deck, audio, audioContext, library, nextId, faderGain, rack,
                   metro>>

NextMic ==
    \/ \E enable \in BOOLEAN : \E supported \in BOOLEAN : \E initial \in ContextStates :
           ToggleMic(enable, supported, initial)
    \/ \E r \in 1..MicRequests : MicGranted(r)
    \/ \E r \in 1..MicRequests : MicDenied(r)

SpecMic == InitGraph /\ [][NextMic]_vars

\* ------------------------------------------------- the queue specification
\* Auto-DJ fed from the per-deck queues: the user queues tracks of the library for
\* either deck at any time, Auto-DJ starts, changes over and is switched off.
\* calls of startTransition in a session of the queue specification
QueueTrans == 1
QueueSettings ==
    {[DefaultSettings EXCEPT !.playlistSource = "queues", !.transitionType = ty,
                             !.shuffle = FALSE] : ty \in {"Cut", "Crossfade"}}

InitQueue ==
    /\ deck = [d \in DECKS |-> InitDeck]
    /\ audio = [d \in DECKS |-> InitAudio]
    /\ audioContext = FALSE
    /\ crossfader = 0
    /\ library = <<>> /\ queueA = <<>> /\ queueB = <<>>
    /\ isAutoDjEnabled = FALSE /\ autoDjActiveDeck = "A" /\ nextAutoDjTrack = NoSong
    /\ pickedFor = 0
    /\ autoDjHistory = <<>> /\ isTransitioning = FALSE
    /\ autoDjSettings \in QueueSettings
    /\ transitionIntervalRef = 0 /\ transitionTimeoutRef = 0 /\ activeSongIdRef = 0
    /\ transitions = <<>> /\ liveIntervals = {} /\ liveTimeouts = {}
    /\ enables = <<>>
    /\ nextId = 1
    /\ effectPending = FALSE
    /\ userOps = 0
    /\ session = [lib |-> MaxLib, trans |-> QueueTrans, enable |-> MaxEnable,
                  userOps |-> MaxUserOps]
    /\ lastOp = NoOp
    /\ InitDesk

NextQueue ==
    \/ \E i \in DOMAIN library : \E d \in DECKS : HandleAddToQueue(library[i], d)
    \/ Next

SpecQueue == InitQueue /\ [][NextQueue]_vars

\* ----------------------------------------------- the trigger specification
\* Auto-DJ with the Cut or the Crossfade style and a trigger threshold of 12 s or of 0 s, on frames
\* of 20 s and, after a stall of the animation loop, of 40 s
TriggerPoints == {0, 12}
LongFrame == 40000
TriggerSettings ==
    {[DefaultSettings EXCEPT !.transitionType = ty, !.beatMatch = FALSE, !.shuffle = FALSE,
                             !.transitionTrigger = triggerPoint] :
        ty \in {"Cut", "Crossfade"}, triggerPoint \in TriggerPoints}

InitTrigger ==
    /\ deck = [d \in DECKS |-> InitDeck]
    /\ audio = [d \in DECKS |-> InitAudio]
    /\ audioContext = FALSE
    /\ crossfader = 0
    /\ library = <<>> /\ queueA = <<>> /\ queueB = <<>>
    /\ isAutoDjEnabled = FALSE /\ autoDjActiveDeck = "A" /\ nextAutoDjTrack = NoSong
    /\ pickedFor = 0
    /\ autoDjHistory = <<>> /\ isTransitioning = FALSE
    /\ autoDjSettings \in TriggerSettings
    /\ transitionIntervalRef = 0 /\ transitionTimeoutRef = 0 /\ activeSongIdRef = 0
    /\ transitions = <<>> /\ liveIntervals = {} /\ liveTimeouts = {}
    /\ enables = <<>>
    /\ nextId = 1
    /\ effectPending = FALSE
    /\ userOps = 0
    /\ session = [lib |-> MaxLib, trans |-> MaxTrans, enable |-> MaxEnable,
                  userOps |-> MaxUserOps]
    /\ lastOp = NoOp
    /\ InitDesk

NextTrigger ==
    \/ UpdateLoopAfter(LongFrame)
    \/ Next

SpecTrigger == InitTrigger /\ [][NextTrigger]_vars

\* ------------------------------------------------------------------ claims
\* a call of startTransition that has neither finished nor been aborted and is
\* still awaiting its load, stepping on its interval or waiting for its settle timeout
InProgress(i) ==
    /\ transitions[i].open
    /\ transitions[i].pc = "loading" \/ i \in liveIntervals \/ i \in liveTimeouts

\* C1: at most one Auto-DJ transition is in progress at any time: no call of
\* startTransition is entered while an earlier one, neither finished nor aborted, is
\* still loading its track, stepping, or waiting for the Cut settle.
C1_OneTransitionInProgress ==
    Cardinality({i \in DOMAIN transitions : InProgress(i)}) <= 1

\* C2: once abortAutoDj has run, no progress step and no finishTransition of a
\* cancelled transition runs, no interval or timeout of a cancelled transition is
\* pending, and this also when the abort came while the transition awaited its load.
C2_AbortStopsTransition ==
    /\ \A i \in DOMAIN transitions :
          transitions[i].aborted => i \notin liveIntervals /\ i \notin liveTimeouts
    /\ ~lastOp.aborted

\* C3: a started transition ends: once its load has failed, the call has cleared
\* isTransitioning (nothing else of that call is left to run and clear it).
C3_FailedLoadEndsTransition ==
    \A i \in DOMAIN transitions :
        (transitions[i].pc = "failed" /\ transitions[i].open) => ~isTransitioning

\* C4: after finishTransition the outgoing deck is stopped: it has no audio source
\* that was started and not stopped, and isPlaying is false, whether the transition
\* was started by the trigger or by a skip and whether the outgoing deck was then
\* playing, paused or at its end.
C4_OutgoingDeckStopped ==
    (lastOp.op = "finishTransition" /\ ~lastOp.aborted) =>
        /\ audio[lastOp.from].source # "live"
        /\ audio[lastOp.from].orphans = 0
        /\ ~deck[lastOp.from].isPlaying

\* what C5 states of every field but the history and the incoming deck's playback rate
FinishedState ==
    /\ autoDjActiveDeck = OtherDeck(lastOp.from)
    /\ crossfader = (IF OtherDeck(lastOp.from) = "B" THEN 1000 ELSE -1000)
    /\ ~isTransitioning
    /\ transitionIntervalRef = 0 /\ transitionTimeoutRef = 0
    /\ deck[lastOp.from].song = NoSong
    /\ deck[lastOp.from].currentTime = 0
    /\ deck[lastOp.from].loop = NoLoop
    /\ deck[lastOp.from].volume = 750

C6_AfterAbort ==
    lastOp.op = "abortAutoDj" =>
        /\ ~isTransitioning
        /\ transitionIntervalRef = 0 /\ transitionTimeoutRef = 0
        /\ \A d \in DECKS : audio[d].filters = NeutralFilters
        /\ crossfader = 0
        /\ \A d \in DECKS : deck[d].volume = 750 /\ deck[d].playbackRate = RateOne
        /\ nextAutoDjTrack = NoSong
        /\ activeSongIdRef = 0

\* the inputs of the call of getNextTrack that lastOp records
PickCur == deck[autoDjActiveDeck].song
PickNextQueue == IF autoDjActiveDeck = "A" THEN queueB ELSE queueA
PickFromLibrary ==
    /\ lastOp.op = "getNextTrack"
    /\ ~(autoDjSettings.playlistSource = "queues" /\ PickNextQueue # <<>>)
    /\ library # <<>>
PickTierPool == TierPool(library, autoDjHistory, PickCur.id, lastOp.avoid)
PickFinalPool == CriteriaPool(PickTierPool, PickCur, autoDjSettings)
IsOfLibrary(s) == \E i \in DOMAIN library : library[i].id = s.id /\ library[i].name = s.name

\* C7: with a non-empty library getNextTrack returns a track of the library, never
\* null, whatever the history, the current track, the excluded id and the settings.
C7_ReturnsLibraryTrack ==
    (lastOp.op = "getNextTrack" /\ library # <<>>) =>
        lastOp.pick # NoSong /\ IsOfLibrary(lastOp.pick)

\* C7 witness: getNextTrack has returned from a 2-track library whose tracks are
\* both in the history.
C7_Witness ==
    /\ PickFromLibrary /\ Len(library) = 2
    /\ \A i \in DOMAIN library : \E h \in DOMAIN autoDjHistory : autoDjHistory[h].id = library[i].id
    /\ lastOp.pick # NoSong

\* a library record of a track that was not played this session, is not the track
\* on the active deck and is not the excluded record
Unplayed(s) ==
    /\ \A h \in DOMAIN autoDjHistory : autoDjHistory[h].name # s.name
    /\ PickCur.name # s.name
    /\ s.id # lastOp.avoid

\* C8: with the library source, when the library holds a track that is unplayed, not
\* the current track and not excluded, getNextTrack returns such a track.
C8_PicksUnplayed ==
    (PickFromLibrary /\ \E i \in DOMAIN library : Unplayed(library[i])) => Unplayed(lastOp.pick)

\* the five criteria in the order of the filters
CriterionOn(k) ==
    CASE k = 1 -> EnergyOn(PickCur, autoDjSettings)
      [] k = 2 -> ArtistOn(PickCur, autoDjSettings)
      [] k = 3 -> BpmOn(PickCur, autoDjSettings)
      [] k = 4 -> GenreOn(PickCur, autoDjSettings)
      [] OTHER -> HarmonicOn(PickCur, autoDjSettings)
CriterionPass(k, t) ==
    CASE k = 1 -> EnergyPass(t, PickCur, autoDjSettings)
      [] k = 2 -> ArtistPass(t, PickCur, autoDjSettings)
      [] k = 3 -> BpmPass(t, PickCur, autoDjSettings)
      [] k = 4 -> GenrePass(t, PickCur, autoDjSettings)
      [] OTHER -> HarmonicPass(t, PickCur, autoDjSettings)
\* the pool that reaches filter k
PoolReaching(k) == PoolAt(k - 1, PickTierPool, PickCur, autoDjSettings)
SomePass(k) == \E i \in DOMAIN PoolReaching(k) : CriterionPass(k, PoolReaching(k)[i])

\* C9: the filters run in the order energy, artist, BPM, genre, key; a filter
\* narrows the pool to the tracks that pass when some track reaching it passes and
\* leaves it as it was otherwise; the final pool is a non-empty subset of the tier
\* pool, and the pick is of the tier pool and passes every enabled criterion that
\* some track reaching its filter passes.
C9_CriteriaFilters ==
    PickFromLibrary =>
        /\ \A k \in 1..5 :
              PoolReaching(k + 1) =
                  (IF CriterionOn(k) /\ SomePass(k)
                   THEN SelectSeq(PoolReaching(k), LAMBDA t : CriterionPass(k, t))
                   ELSE PoolReaching(k))
        /\ PickFinalPool # <<>> /\ Range(PickFinalPool) \subseteq Range(PickTierPool)
        /\ lastOp.pick \in Range(PickTierPool)
        /\ \A k \in 1..5 : (CriterionOn(k) /\ SomePass(k)) => CriterionPass(k, lastOp.pick)

\* C9 witness: a pick for which one enabled filter narrowed the pool and another
\* enabled filter, passed by no track reaching it, left the pool as it was.
C9_Witness ==
    /\ PickFromLibrary
    /\ \E k \in 1..5 : CriterionOn(k) /\ SomePass(k) /\ PoolReaching(k + 1) # PoolReaching(k)
    /\ \E k \in 1..5 : CriterionOn(k) /\ ~SomePass(k)

\* the library entry of the track on the active deck (0: none)
CurrentEntry ==
    IF \E i \in DOMAIN library : library[i].name = PickCur.name
    THEN CHOOSE i \in DOMAIN library : library[i].name = PickCur.name
    ELSE 0
\* the first member of the surviving pool met walking the library circularly from
\* the entry after entry i
WalkFrom(i) ==
    LET At(n) == library[((i - 1 + n) % Len(library)) + 1]
        hits == {n \in 1..Len(library) :
                    \E k \in DOMAIN PickFinalPool : PickFinalPool[k].id = At(n).id}
    IN  At(CHOOSE n \in hits : \A m \in hits : n <= m)

\* C10: with shuffle off and the library source the pick is the first member of the
\* surviving pool met when the library is walked in its order, circularly, from the
\* entry after the current track's entry.
C10_SequentialWalk ==
    (PickFromLibrary /\ ~autoDjSettings.shuffle /\ CurrentEntry # 0) =>
        lastOp.pick = WalkFrom(CurrentEntry)

\* a candidate other than the track the repick was told to avoid: an entry of the
\* library or, under the queues source, of the queue getNextTrack reads
OtherCandidate ==
    \/ \E i \in DOMAIN library : library[i].id # lastOp.avoid
    \/ /\ autoDjSettings.playlistSource = "queues"
       /\ LET nextDeckQueue == IF autoDjActiveDeck = "A" THEN queueB ELSE queueA
          IN  \E i \in DOMAIN nextDeckQueue : nextDeckQueue[i].id # lastOp.avoid

\* C11: after handleAutoDjRepick the cached next pick differs from the one cached
\* before, whenever a candidate other than that one exists, under the library source
\* and under the queues source.
C11_RepickChangesPick ==
    (lastOp.op = "handleAutoDjRepick" /\ OtherCandidate) =>
        /\ nextAutoDjTrack = lastOp.pick
        /\ lastOp.pick # NoSong
        /\ lastOp.pick.id # lastOp.avoid

\* C12: while Auto-DJ is enabled the cached next pick is the one computed for the
\* track now on the active deck (it was recomputed when that track changed), and
\* startTransition is never entered with a pick computed for an earlier track.
C12_PickForCurrentTrack ==
    /\ (isAutoDjEnabled /\ ~effectPending /\ nextAutoDjTrack # NoSong) =>
           pickedFor = deck[autoDjActiveDeck].song.id
    /\ lastOp.op = "startTransition" => lastOp.pickedFor = lastOp.current

\* the key with number n and letter l, read off the wheel
CamelotKey(n, l) == CAMELOT_KEYS[2 * (n - 1) + (IF l = "A" THEN 1 ELSE 2)]
OtherLetter(l) == IF l = "A" THEN "B" ELSE "A"

\* C13: for the Camelot key nL getCompatibleKeys returns exactly three keys: n with
\* the other letter, (n mod 12) + 1 with L and ((n + 10) mod 12) + 1 with L, each a
\* key of the wheel: {8B, 9A, 7A} for 8A, 12A as the previous key of 1A, 1A as the
\* next key of 12A.
C13_CompatibleKeys ==
    lastOp.op = "getCompatibleKeys" =>
        \E n \in 1..12 : \E l \in {"A", "B"} :
            /\ lastOp.key = CamelotKey(n, l)
            /\ Len(lastOp.keys) = 3
            /\ Range(lastOp.keys) = {CamelotKey(n, OtherLetter(l)), CamelotKey((n % 12) + 1, l),
                                     CamelotKey(((n + 10) % 12) + 1, l)}
            /\ Range(lastOp.keys) \subseteq Range(CAMELOT_KEYS)
            /\ (lastOp.key = <<"8", "A">>) =>
                   Range(lastOp.keys) = {<<"8", "B">>, <<"9", "A">>, <<"7", "A">>}

\* C13 witness: getCompatibleKeys has been applied to 1A, and 12A is among its keys
C13_Witness ==
    /\ lastOp.op = "getCompatibleKeys" /\ lastOp.key = <<"1", "A">>
    /\ Contains(lastOp.keys, <<"1", "2", "A">>)

\* the forward mapping binds no message to two controls and no control twice
OneControlPerMessage(mapping) ==
    \A i, j \in DOMAIN mapping :
        i # j => mapping[i].message # mapping[j].message /\ mapping[i].control # mapping[j].control

\* C14: no two controls are mapped to the same message, and a learn capture of
\* message M for control Y leaves Y mapped to M, every control that was mapped to M
\* unmapped, and every other control mapped as before.
C14_OneControlPerMessage ==
    /\ OneControlPerMessage(midiMapping)
    /\ lastOp.op = "learn" =>
          \A c \in CONTROLS :
              MappingOf(midiMapping, c) =
                  IF c = lastOp.control THEN lastOp.message
                  ELSE IF MappingOf(lastOp.mapping, c) = lastOp.message THEN NoMessage
                  ELSE MappingOf(lastOp.mapping, c)

\* C14 witness: control Y has just learned a message that control X was mapped to
C14_Witness ==
    /\ lastOp.op = "learn"
    /\ \E x \in CONTROLS \ {lastOp.control} : MappingOf(lastOp.mapping, x) = lastOp.message

\* C15: when a message is looked up for dispatch, the reverse index used is the
\* inverse of the forward mapping: it sends message M to control C exactly when the
\* forward mapping binds C to M.
C15_ReverseIndexIsInverse ==
    lastOp.op = "dispatch" =>
        \A m \in MessageIds : \A c \in CONTROLS :
            (midiHandler.reverseMidiMapping[m] = c) <=> (MappingOf(midiMapping, c) = m)

\* the tempo the claim names for a window: round(60000 / mean interval) clamped to
\* [40, 240]; the mean of n - 1 intervals is (last - first) / (n - 1), and 60000 / 0
\* is beyond every tempo, so it clamps to 240
ClaimedBpm(taps) ==
    LET span == taps[Len(taps)] - taps[1]
    IN  IF span = 0 THEN 240
        ELSE Max(40, Min(240, (2 * 60000 * (Len(taps) - 1) + span) \div (2 * span)))

\* C18 as stated: after a tap that leaves at least two timestamps in the window the
\* tempo is round(60000 / mean interval) clamped to [40, 240]; after a tap that leaves
\* one timestamp the tempo is unchanged.
C18_TapTempoAsStated ==
    lastOp.op = "handleMetronomeTap" =>
        metronomeBpm = IF Len(tapTempoTimestamps) >= 2 THEN ClaimedBpm(tapTempoTimestamps)
                       ELSE lastOp.bpm

\* C18: after a tap that leaves at least two timestamps with a positive mean
\* interval the tempo is round(60000 / mean interval) clamped to [40, 240]; after a
\* tap that leaves one timestamp, or timestamps that are all equal, the tempo is
\* unchanged.
C18_TapTempo ==
    lastOp.op = "handleMetronomeTap" =>
        metronomeBpm =
            IF /\ Len(tapTempoTimestamps) >= 2
               /\ tapTempoTimestamps[Len(tapTempoTimestamps)] > tapTempoTimestamps[1]
            THEN ClaimedBpm(tapTempoTimestamps)
            ELSE lastOp.bpm

\* C18 witness: the third of three taps 500 ms apart has set a tempo of 120 that was
\* not the tempo before
C18_Witness ==
    /\ lastOp.op = "handleMetronomeTap"
    /\ Len(tapTempoTimestamps) = 3
    /\ tapTempoTimestamps[2] - tapTempoTimestamps[1] = 500
    /\ tapTempoTimestamps[3] - tapTempoTimestamps[2] = 500
    /\ metronomeBpm = 120
    /\ lastOp.bpm # 120

\* C19: the tap window holds at most 5 timestamps, consecutive ones at most 2000 ms
\* apart; a tap keeps the newest earlier timestamps and drops the oldest first; a tap
\* more than 2000 ms after the previous one leaves itself alone in the window and the
\* tempo unchanged, and the tap after it sets the tempo from their interval alone.
C19_TapWindow ==
    /\ Len(tapTempoTimestamps) <= 5
    /\ \A i \in 2..Len(tapTempoTimestamps) :
          /\ tapTempoTimestamps[i] - tapTempoTimestamps[i - 1] <= 2000
          /\ tapTempoTimestamps[i] - tapTempoTimestamps[i - 1] >= 0
    /\ lastOp.op = "handleMetronomeTap" =>
          LET before == lastOp.taps
              n == Len(tapTempoTimestamps)
          IN  /\ tapTempoTimestamps[n] = lastOp.now
              /\ IF before # <<>> /\ lastOp.now - before[Len(before)] > 2000
                 THEN tapTempoTimestamps = <<lastOp.now>> /\ metronomeBpm = lastOp.bpm
                 ELSE /\ n = Min(Len(before) + 1, 5)
                      /\ \A i \in 1..(n - 1) :
                            tapTempoTimestamps[i] = before[Len(before) - (n - 1) + i]
              /\ (Len(before) = 1 /\ n = 2 /\ lastOp.now > before[1]) =>
                    metronomeBpm = Max(40, Min(240, RoundDiv(60000, lastOp.now - before[1])))

\* C19 witness: a tap more than 2000 ms after a full window of five has emptied it
C19_Witness ==
    /\ lastOp.op = "handleMetronomeTap"
    /\ Len(lastOp.taps) = 5
    /\ lastOp.now - lastOp.taps[5] > 2000
    /\ tapTempoTimestamps = <<lastOp.now>>

\* C19 witness of the rolling window: a sixth tap in time has dropped the oldest
C19_Rolled ==
    /\ lastOp.op = "handleMetronomeTap"
    /\ Len(lastOp.taps) = 5
    /\ Len(tapTempoTimestamps) = 5
    /\ tapTempoTimestamps[1] = lastOp.taps[2]

\* C16: when a frame takes a playing deck with an active loop [start, end) to a
\* simulated time t >= end, the deck's position becomes start + ((t - end) mod
\* (end - start)), inside [start, end), and a new audio source is started.
C16_LoopWrap ==
    lastOp.op = "updateLoop" =>
        \A d \in DECKS :
            (lastOp.t[d] # -1 /\ deck[d].loop.end > deck[d].loop.start) =>
                /\ deck[d].currentTime =
                      deck[d].loop.start + ((lastOp.t[d] - deck[d].loop.end)
                                               % (deck[d].loop.end - deck[d].loop.start))
                /\ deck[d].currentTime >= deck[d].loop.start
                /\ deck[d].currentTime < deck[d].loop.end
                /\ d \in lastOp.restarted

\* C17: a deck whose loop is active has both loop bounds set, with end > start.
C17_ActiveLoopIsProper ==
    \A d \in DECKS :
        deck[d].loop.active =>
            /\ deck[d].loop.start # -1
            /\ deck[d].loop.end # -1
            /\ deck[d].loop.end > deck[d].loop.start

\* C20: once the effects have run, the fader gain node of a deck with a live source
\* has gain = deck volume x the crossfader-law gain of that deck at the current
\* crossfader position and curve.
C20_FaderGain ==
    ~mixEffectDue =>
        \A d \in DECKS :
            (faderGain[d] # -1 /\ audio[d].source = "live") =>
                faderGain[d] = deck[d].volume * FaderLaw(crossfaderCurve, crossfader, d)

\* C21: for every crossfader position and each curve the gain pair lies in
\* [0, 1] x [0, 1], it is (1, 0) at -1 and (0, 1) at 1, and the two branches of the
\* fast-cut law give the same pair at position 0.5.
C21_CrossfaderLaw ==
    lastOp.op = "crossfaderEffect" =>
        /\ lastOp.gains[1] >= 0 /\ lastOp.gains[1] <= 1000000
        /\ lastOp.gains[2] >= 0 /\ lastOp.gains[2] <= 1000000
        /\ crossfader = -1000 => lastOp.gains = <<1000000, 0>>
        /\ crossfader = 1000 => lastOp.gains = <<0, 1000000>>
        /\ (crossfaderCurve = "fast-cut" /\ crossfader = 0) =>
              lastOp.gains = FastCut(500, TRUE) /\ lastOp.gains = FastCut(500, FALSE)

\* C27: each deck has at most one started-and-not-stopped main playback source: no
\* source is left playing once the deck's reference has moved to a newer one.
C27_OneLiveSource ==
    \A d \in DECKS : audio[d].orphans = 0

\* C30: a deck that is playing has a track.
C30_PlayingHasTrack ==
    \A d \in DECKS : deck[d].isPlaying => deck[d].song # NoSong


\* C26: once every load requested on a deck has settled and the most recent
\* request was decoded, the deck state and the audio buffer hold the most recently
\* requested track, whichever decode completed first
C26_LatestLoadWins ==
    \A d \in DECKS :
        (/\ loads[d] # <<>>
         /\ \A i \in DOMAIN loads[d] : loads[d][i].state # "decoding"
         /\ loads[d][Len(loads[d])].state = "done")
        => /\ deck[d].song.name = loads[d][Len(loads[d])].name
           /\ audio[d].buffer = loads[d][Len(loads[d])].name

\* C29: a load whose read or decode fails leaves both decks' state, the audio
\* references, the library and both queues as they were before it settled
C29_FailedLoadChangesNothing ==
    [][\A d \in DECKS : \A i \in DOMAIN loads[d] :
           (loads[d][i].state = "decoding" /\ loads'[d][i].state \in {"read-error", "decode-error"})
           => UNCHANGED <<deck, audio, library, queueA, queueB>>]_vars

\* a failed load has settled on a deck that holds a track and plays it
C29_Witness ==
    \E d \in DECKS : \E i \in DOMAIN loads[d] :
        /\ loads[d][i].state \in {"read-error", "decode-error"}
        /\ deck[d].song # NoSong /\ deck[d].isPlaying /\ audio[d].source = "live"

C24_ChainIsActiveSet ==
    (audioGraph.contexts > 0 /\ ~fx.due)
    => Spliced(fx.edges) = RechainClean(fx.edges, fx.activeEffects)

\* C25: after the reconnect effect has run, no unit's output keeps a connection that
\* is not part of the chain of the active set, and audio from the FX entry passes
\* through no deactivated unit
C25_PreviousChainRemoved ==
    (audioGraph.contexts > 0 /\ ~fx.due)
    => /\ \A e \in fx.edges :
              e.from # "fxChainEntry" => e \in RechainClean(fx.edges, fx.activeEffects)
       /\ \A e \in Spliced(fx.edges) : e.to \in FxUnits => e.to \in fx.activeEffects

\* C28: when a scratch gesture has ended and its deferred resume, if any, has run,
\* the deck plays if and only if it played when the gesture began, it plays from the
\* scratched position, the scratch noise is at 0 and wasPlayingBeforeScratch is false
C28_ScratchResumes ==
    \A d \in DECKS :
        (scratch[d].gesture = "ended" /\ scratch[d].resume = -1)
        => /\ deck[d].isPlaying = scratch[d].began
           /\ deck[d].isPlaying => (deck[d].currentTime = scratch[d].position
                                     /\ audio[d].source = "live")
           /\ scratch[d].noise = 0
           /\ ~scratch[d].wasPlayingBeforeScratch

\* C22: what loadBeatsFromDB returns is three arrays of 12 slots; read from a
\* readable store it holds, at each category and index, the beat the last save was
\* given there without its file and audioBuffer fields, and null where that save
\* was given null, with nothing of an earlier save; from an absent or unreadable
\* store it holds 36 nulls
C22_BeatKitRoundTrip ==
    lastOp.op = "loadBeatsFromDB"
    => /\ DOMAIN beatKit.loaded = {"drum", "tuning", "instrumental"}
       /\ \A category \in DOMAIN beatKit.loaded :
              /\ Len(beatKit.loaded[category]) = 12
              /\ \A slot \in 1..12 :
                     beatKit.loaded[category][slot] =
                         IF ~beatKit.readable \/ beatKit.saved[category][slot] = NoBeat
                         THEN NoBeat
                         ELSE [id |-> beatKit.saved[category][slot].id,
                               name |-> beatKit.saved[category][slot].name,
                               arrayBuffer |-> beatKit.saved[category][slot].arrayBuffer]

\* a kit with one populated pad and two empty categories was saved and has been
\* loaded from the store: the pad comes back without file and audioBuffer
C22_Witness ==
    /\ lastOp.op = "loadBeatsFromDB"
    /\ beatKit.readable
    /\ beatKit.saved["drum"][12] # NoBeat
    /\ beatKit.saved["drum"][1] = NoBeat
    /\ beatKit.saved["instrumental"][3] = NoBeat
    /\ beatKit.loaded["drum"][12] = [id |-> 2, name |-> "snare", arrayBuffer |-> "snare"]

\* C31: a message is captured (bound, not dispatched) exactly when learn mode is
\* armed: a capture binds the message to the armed control and switches learn mode
\* off, and a message that arrives while learn mode is off is dispatched, never captured
C31_LearnCapturesNext ==
    [][/\ lastOp'.op = "learn"
          => (isMidiLearning # NoControl /\ lastOp'.control = isMidiLearning
              /\ isMidiLearning' = NoControl)
       /\ lastOp'.op = "dispatch" => isMidiLearning = NoControl]_vars

\* C32: a load that completed on a deck left the deck with the new track, its
\* duration, position 0, stopped, no loop, no cue point, zoom 1, view start 0, rate 1
\* and gain 50, with the volume, the key lock and the scratch mode it had before, and
\* left the other deck as it was
C32_LoadKeepsUserSettings ==
    lastOp.op = "loadSong"
    => LET d == lastOp.caller
           before == lastOp.decks[d]
       IN  /\ deck[d].song # NoSong
           /\ deck[d].duration = FILES[FileOf(deck[d].song.name)].duration
           /\ deck[d].currentTime = 0
           /\ ~deck[d].isPlaying
           /\ deck[d].loop = NoLoop
           /\ deck[d].cuePoints = <<>>
           /\ deck[d].zoom = 1
           /\ deck[d].viewStartRatio = 0
           /\ deck[d].playbackRate = RateOne
           /\ deck[d].gain = 50
           /\ deck[d].volume = before.volume
           /\ deck[d].keyLock = before.keyLock
           /\ scratch[d].scratchModeEnabled = lastOp.scratchMode
           /\ deck[OtherDeck(d)] = lastOp.decks[OtherDeck(d)]

\* a load completed on a deck that played a track from a position, with a cue point,
\* a zoomed view, key lock and scratch mode on and the knobs moved
C32_Witness ==
    /\ lastOp.op = "loadSong"
    /\ lastOp.caller = "A"
    /\ lastOp.decks["A"].isPlaying
    /\ lastOp.decks["A"].currentTime > 0
    /\ lastOp.decks["A"].cuePoints # <<>>
    /\ lastOp.decks["A"].zoom > 1
    /\ lastOp.decks["A"].gain # 50
    /\ lastOp.decks["A"].volume # 750
    /\ lastOp.decks["A"].keyLock
    /\ lastOp.scratchMode
    /\ lastOp.decks["B"].song # NoSong

C35_BeatsCycle ==
    (metro.isMetronomeEnabled /\ ~MetroDue) =>
        /\ \A i \in 1..Len(metro.clicks) :
               /\ metro.clicks[i].beatInMeasure = (i - 1) % metro.ran.beats
               /\ metro.clicks[i].isDownbeat <=> (metro.clicks[i].beatInMeasure = 0)
               /\ i > 1 => /\ metro.clicks[i].time > metro.clicks[i - 1].time
                           /\ (metro.clicks[i].time - metro.clicks[i - 1].time)
                                  * metro.ran.metronomeBpm = 60000
        /\ \A j \in 1..Len(metro.shown) : metro.shown[j] = ((j - 1) % metro.ran.beats) + 1

\* C39: with the metronome disabled the displayed beat is 0 and no scheduler timeout
\* is pending
C39_DisabledShowsNothing ==
    (~metro.isMetronomeEnabled /\ ~MetroDue) =>
        /\ metro.metronomeBeat = 0
        /\ metro.timer = -1

\* C36: whatever the interleaving of toggleMic calls and permission answers, every
\* microphone stream held is the one in micStreamRef (so at most one, and it can
\* still be released), with no request in flight the mic is enabled only if the
\* latest call asked for it, and a rejected request leaves isMicEnabled, the decks and
\* the mixer as they were
C36_MicIdempotent ==
    [][/\ mic'.held \subseteq {mic'.stream}
       /\ (mic'.pending = {} /\ mic'.isMicEnabled) => mic'.latest = "enable"
       /\ lastOp'.op = "micDenied" =>
              /\ mic'.isMicEnabled = mic.isMicEnabled
              /\ UNCHANGED <<deck, audio, crossfader, faderGain>>]_vars

\* C38: when the load of toggleAutoDj has completed, deck A plays the starting
\* track from position 0, deck A is the active deck and the history is empty,
\* whatever the decks were doing when Auto-DJ was switched on
C38_EnableStartsDeckA ==
    lastOp.op = "toggleAutoDj" =>
        /\ deck["A"].isPlaying
        /\ deck["A"].song # NoSong
        /\ deck["A"].song.name = lastOp.pick.name
        /\ deck["A"].currentTime = 0
        /\ autoDjActiveDeck = "A"
        /\ autoDjHistory = <<>>

\* C40: under the queues source, the queue that toggleAutoDj or finishTransition pops
\* has the track that was picked and loaded at its head, so that no queued track is
\* dropped unplayed; and the track toggleAutoDj starts does not stay at the head of
\* the other queue
PoppedThePick(popped, pick) == popped # <<>> => popped[1] = pick

C40_QueuePopsThePick ==
    [][/\ (lastOp'.op = "toggleAutoDj" /\ autoDjSettings.playlistSource = "queues")
              => /\ PoppedThePick(queueA, lastOp'.pick)
                 /\ (queueB # <<>> /\ queueB[1] = lastOp'.pick)
                        => (queueA # <<>> /\ queueA[1] = lastOp'.pick)
       /\ (lastOp'.op = "finishTransition"
              /\ transitions[lastOp'.tr].st.playlistSource = "queues")
              => PoppedThePick(IF lastOp'.from = "A" THEN queueB ELSE queueA,
                               transitions[lastOp'.tr].nextTrack)]_vars

\* C37: Auto-DJ does not come to rest with the active deck's track played to its
\* end and no transition started: enabled, library not empty, no transition, load
\* or timer in flight, the effect has run, and the active deck stopped at its end
C37_EndStartsTransition ==
    LET activeDeckState == deck[autoDjActiveDeck]
    IN  ~(/\ isAutoDjEnabled
          /\ library # <<>>
          /\ ~effectPending
          /\ ~isTransitioning
          /\ liveIntervals = {} /\ liveTimeouts = {}
          /\ \A i \in DOMAIN transitions : transitions[i].pc # "loading"
          /\ \A j \in DOMAIN enables : enables[j].pc # "loading"
          /\ activeDeckState.song # NoSong
          /\ ~activeDeckState.isPlaying
          /\ activeDeckState.currentTime = activeDeckState.duration)
====
